---- MODULE Spec2Model ----
(***************************************************************************)
(* joy-clippy: the global-input / window-lifecycle engine of src/app.rs,   *)
(* with the History and Settings window states of src/window/ and the key  *)
(* translation of src/utils.rs.                                             *)
(*                                                                         *)
(* The iced runtime is modelled as a single-threaded event loop that takes *)
(* one message at a time through App::update.  A Task returned by update   *)
(* is a stream of steps run by the executor: the steps of one task happen  *)
(* in order, the steps of different tasks interleave freely.               *)
(***************************************************************************)
EXTENDS Integers, Sequences, FiniteSets, Bags, TLC

\* ------------------------------------------------------------------ bounds
\* window ids the runtime may hand out (iced::window::Id::unique)
MaxWindows == 3
\* inputs the environment (user, tray, OS) may produce in one run
MaxInputs == 2
\* raw events the input hook may produce in one run
MaxRawEvents == 5
\* cursor moves and paste requests sent to one History window in SpecHistory
MaxMoves == 4
\* clicks and key presses of the user in SpecCapture
MaxCaptureInputs == 4
\* longest item list drawn for a Loaded History state
MaxItems == 3
\* invocations of the paste synthesizer in SpecSynth
MaxPastes == 2
\* cursor moves and Paste messages in SpecPasteFlow
MaxPasteInputs == 3
\* History window messages sent to any window id in SpecStray
MaxStrayInputs == 2
\* opens, closes, cursor moves and repeated load results in SpecLoad
MaxLoadInputs == 3
\* presses and releases of one key in SpecChannel, more than the channel holds
MaxTaps == 12
\* paste flows started in SpecAbort
MaxFlows == 1
\* keys pressed in SpecKeys
MaxKeyInputs == 1
\* toggle presses and focus losses in SpecToggle
MaxToggleInputs == 2
\* close requests, close events and focus losses the environment sends in SpecClose
MaxCloseInputs == 3

\* ------------------------------------------------------- program constants
ASYNC_CHANNEL_SIZE == 10

\* ------------------------------------------------------------- key values
\* iced::keyboard::Modifiers flags
CTRL == "CTRL"
ALT == "ALT"
SHIFT == "SHIFT"
LOGO == "LOGO"
ModifierFlags == {CTRL, ALT, SHIFT, LOGO}

\* iced::keyboard::key::Physical
Code(c) == [variant |-> "Code", code |-> c, os |-> "None", native |-> 0]
Unidentified(os, n) == [variant |-> "Unidentified", code |-> "None", os |-> os, native |-> n]

\* rdev::Key
Key(name) == [name |-> name, raw |-> 0]
Unknown(n) == [name |-> "Unknown", raw |-> n]

\* the arms `key::Code::X => rdev::Key::Y` of iced_key_to_rdev, in source order
CodeTable ==
    {
      <<"Backquote", "BackQuote">>, <<"Backslash", "BackSlash">>, <<"BracketLeft", "LeftBracket">>,
      <<"BracketRight", "RightBracket">>, <<"Comma", "Comma">>, <<"Digit0", "Num0">>,
      <<"Digit1", "Num1">>, <<"Digit2", "Num2">>, <<"Digit3", "Num3">>,
      <<"Digit4", "Num4">>, <<"Digit5", "Num5">>, <<"Digit6", "Num6">>,
      <<"Digit7", "Num7">>, <<"Digit8", "Num8">>, <<"Digit9", "Num9">>,
      <<"Equal", "Equal">>, <<"IntlBackslash", "IntlBackslash">>, <<"KeyA", "KeyA">>,
      <<"KeyB", "KeyB">>, <<"KeyC", "KeyC">>, <<"KeyD", "KeyD">>,
      <<"KeyE", "KeyE">>, <<"KeyF", "KeyF">>, <<"KeyG", "KeyG">>,
      <<"KeyH", "KeyH">>, <<"KeyI", "KeyI">>, <<"KeyJ", "KeyJ">>,
      <<"KeyK", "KeyK">>, <<"KeyL", "KeyL">>, <<"KeyM", "KeyM">>,
      <<"KeyN", "KeyN">>, <<"KeyO", "KeyO">>, <<"KeyP", "KeyP">>,
      <<"KeyQ", "KeyQ">>, <<"KeyR", "KeyR">>, <<"KeyS", "KeyS">>,
      <<"KeyT", "KeyT">>, <<"KeyU", "KeyU">>, <<"KeyV", "KeyV">>,
      <<"KeyW", "KeyW">>, <<"KeyX", "KeyX">>, <<"KeyY", "KeyY">>,
      <<"KeyZ", "KeyZ">>, <<"Minus", "Minus">>, <<"Period", "Dot">>,
      <<"Quote", "Quote">>, <<"Semicolon", "SemiColon">>, <<"Slash", "Slash">>,
      <<"AltLeft", "Alt">>, <<"AltRight", "Alt">>, <<"Backspace", "Backspace">>,
      <<"CapsLock", "CapsLock">>, <<"ControlLeft", "ControlLeft">>, <<"ControlRight", "ControlRight">>,
      <<"Enter", "Return">>, <<"SuperLeft", "MetaLeft">>, <<"SuperRight", "MetaRight">>,
      <<"ShiftLeft", "ShiftLeft">>, <<"ShiftRight", "ShiftRight">>, <<"Space", "Space">>,
      <<"Tab", "Tab">>, <<"Delete", "Delete">>, <<"End", "End">>,
      <<"Home", "Home">>, <<"Insert", "Insert">>, <<"PageDown", "PageDown">>,
      <<"PageUp", "PageUp">>, <<"ArrowDown", "DownArrow">>, <<"ArrowLeft", "LeftArrow">>,
      <<"ArrowRight", "RightArrow">>, <<"ArrowUp", "UpArrow">>, <<"NumLock", "NumLock">>,
      <<"Numpad0", "Num0">>, <<"Numpad1", "Num1">>, <<"Numpad2", "Num2">>,
      <<"Numpad3", "Num3">>, <<"Numpad4", "Num4">>, <<"Numpad5", "Num5">>,
      <<"Numpad6", "Num6">>, <<"Numpad7", "Num7">>, <<"Numpad8", "Num8">>,
      <<"Numpad9", "Num9">>, <<"NumpadAdd", "KpPlus">>, <<"NumpadDivide", "KpDivide">>,
      <<"NumpadEnter", "KpReturn">>, <<"NumpadMultiply", "KpMultiply">>, <<"NumpadStar", "KpMultiply">>,
      <<"NumpadSubtract", "KpMinus">>, <<"Escape", "Escape">>, <<"Fn", "Function">>,
      <<"PrintScreen", "PrintScreen">>, <<"ScrollLock", "ScrollLock">>, <<"Pause", "Pause">>,
      <<"Meta", "MetaLeft">>, <<"F1", "F1">>, <<"F2", "F2">>,
      <<"F3", "F3">>, <<"F4", "F4">>, <<"F5", "F5">>,
      <<"F6", "F6">>, <<"F7", "F7">>, <<"F8", "F8">>,
      <<"F9", "F9">>, <<"F10", "F10">>, <<"F11", "F11">>,
      <<"F12", "F12">>
    }

iced_key_to_rdev(key) ==
    IF key.variant = "Code"
    THEN IF \E row \in CodeTable : row[1] = key.code
         THEN Key((CHOOSE row \in CodeTable : row[1] = key.code)[2])
         ELSE Unknown(0)
    ELSE IF key.os = "Windows" THEN Unknown(key.native) ELSE Unknown(0)

\* app::Shortcut (logical_key is display-only and carried as the code's name)
Shortcut(modifiers, physical_key) ==
    [modifiers |-> modifiers,
     logical_key |-> physical_key.code,
     iced_physical_key |-> physical_key,
     rdev_key |-> iced_key_to_rdev(physical_key)]

DEFAULT_TOGGLE_MODIFIERS == {ALT}
DEFAULT_TOGGLE_PHYSICAL_KEY == Code("F9")
DefaultShortcut == Shortcut(DEFAULT_TOGGLE_MODIFIERS, DEFAULT_TOGGLE_PHYSICAL_KEY)

\* ------------------------------------------------------------------ state
VARIABLES
    windows,          \* App.windows: window id -> Window
    db,               \* App.db: "Disconnected" or "Connected"
    toggle_shortcut,  \* App.toggle_shortcut
    next_id,          \* the runtime's next fresh window id
    tasks,            \* bag of running tasks, each a sequence of steps
    os_windows,       \* window ids open in the runtime's window manager
    clipboard,        \* text of the system clipboard
    storage,          \* entries of the database, newest first
    next_entry_id,    \* the database's next primary key
    injected,         \* synthetic events injected by rdev::simulate, in order
    held,             \* physical keys held down (environment)
    rx,               \* mpsc channel from the hook thread to the listener
    modifiers,        \* the listener loop's local `modifiers`
    sender,           \* stream::channel from the listener to the event loop
    status,           \* "running", "panicked" or "exited"
    inputs,           \* environment inputs produced so far
    last,             \* the message update processed in the last step, and the task it returned
    obs               \* observations of the effects of the handlers

vars == <<windows, db, toggle_shortcut, next_id, tasks, os_windows, clipboard,
          storage, next_entry_id, injected, held, rx, modifiers, sender, status,
          inputs, last, obs>>

\* ---------------------------------------------------------- window states
\* window::history::State
Loading ==
    [kind |-> "History", state |-> "Loading", selected_item_cursor |-> 0, items |-> <<>>]
Loaded(selected_item_cursor, items) ==
    [kind |-> "History", state |-> "Loaded",
     selected_item_cursor |-> selected_item_cursor, items |-> items]

\* window::settings::ShortcutSelectionState
NotListening == [tag |-> "NotListening"]
Listening(shortcut) == [tag |-> "Listening", shortcut |-> shortcut]
\* window::settings::State
SettingsState(shortcut, selection) ==
    [toggle_shortcut |-> shortcut, kind |-> "Settings",
     shortcut_selection_state |-> selection]
\* window::settings::State::new
SettingsNew(shortcut) == SettingsState(shortcut, NotListening)

\* entity::entry::Model (added_at is the position in storage)
Entry(id, data) == [id |-> id, data |-> data]

\* ------------------------------------------------------------- messages
\* app::Message
GlobalEvent(mods, event) == [modifiers |-> mods, event |-> event, type |-> "GlobalEvent"]
AppEvent(id, event) == [id |-> id, event |-> event, type |-> "AppEvent"]
RequestWindowClose(id) == [id |-> id, type |-> "RequestWindowClose"]
WindowClose(id) == [id |-> id, type |-> "WindowClose"]
LooseFocus(id) == [id |-> id, type |-> "LooseFocus"]
Panic == [type |-> "Panic"]
ExitApp == [type |-> "ExitApp"]
ClipboardEvent == [type |-> "ClipboardEvent"]
RequestPaste(item) == [type |-> "RequestPaste", item |-> item]
SetClipboardItem(item) == [type |-> "SetClipboardItem", item |-> item]
SimulatePaste == [type |-> "SimulatePaste"]
RequestOpenHistoryWindow == [type |-> "RequestOpenHistoryWindow"]
RequestCloseHistoryWindow == [type |-> "RequestCloseHistoryWindow"]
HistoryWindowLoaded(id, items) == [items |-> items, id |-> id, type |-> "HistoryWindowLoaded"]
HistoryWindowEvent(id, message) == [id |-> id, type |-> "HistoryWindowEvent", message |-> message]
OpenSettingsWindow == [type |-> "OpenSettingsWindow"]
SettingsWindowEvent(id, message) == [id |-> id, type |-> "SettingsWindowEvent", message |-> message]
DbConnection == [type |-> "DbConnection"]
UpdateToggleShortcut(shortcut) == [shortcut |-> shortcut, type |-> "UpdateToggleShortcut"]

\* window::history::Message
MoveHistoryCursor(direction) == [type |-> "MoveHistoryCursor", direction |-> direction]
Paste == [type |-> "Paste"]
OpenSettings == [type |-> "OpenSettings"]
\* window::settings::Message
NewShortcutInput(shortcut) == [shortcut |-> shortcut, type |-> "NewShortcutInput"]
ToggleShortcutSelection == [type |-> "ToggleShortcutSelection"]

\* rdev::EventType
KeyPress(key) == [key |-> key, event_type |-> "KeyPress"]
KeyRelease(key) == [key |-> key, event_type |-> "KeyRelease"]
ButtonPress == [key |-> Unknown(0), event_type |-> "ButtonPress"]

\* iced::Event
KeyPressed(physical_key, mods) ==
    [modifiers |-> mods, physical_key |-> physical_key, kind |-> "KeyPressed"]
KeyReleased(physical_key, mods) ==
    [modifiers |-> mods, physical_key |-> physical_key, kind |-> "KeyReleased"]
Unfocused == [kind |-> "Unfocused"]
Closed == [kind |-> "Closed"]

\* ---------------------------------------------------------------- tasks
\* the steps of a Task: Task::done, iced::window::{open, gain_focus, close},
\* the futures of Task::future / Task::perform, iced::exit
Done(msg) == [msg |-> msg, op |-> "done"]
\* open_task.chain(iced::window::gain_focus(id)): the focus request changes nothing
\* the model keeps, so the two runtime actions are one step
Open(id) == [id |-> id, op |-> "open"]
Close(id) == [id |-> id, op |-> "close"]
GetDb == [op |-> "get_db"]
GetItems(id, handle) == [db |-> handle, id |-> id, op |-> "get_items"]
AddItem(text, handle) == [db |-> handle, op |-> "add_item", text |-> text]
Delete(item, handle) == [db |-> handle, item |-> item, op |-> "delete"]
Sleep(ms) == [op |-> "sleep", ms |-> ms]
Simulate(event) == [event |-> event, op |-> "simulate"]
Exit == [op |-> "exit"]
\* the thread of subscribe_global_event running rdev::listen
ListenHook == [op |-> "listen"]
NoTask == <<>>

\* --------------------------------------------- window::history::State::update
\* what State::update returns: the new state, the Task, and whether it panicked
Outcome(state, task, panic) == [state |-> state, task |-> task, panic |-> panic]

\* the arm with the cursor wrapping around at both ends
MoveCursor_Wrap(selected_item_cursor, direction, len) ==
    LET moved == selected_item_cursor + direction
    IN  IF moved < 0 THEN len - 1 ELSE IF moved >= len THEN 0 ELSE moved

\* the arm Message::MoveHistoryCursor: add, clamp below, clamp above
MoveCursor(selected_item_cursor, direction, len) ==
    LET moved == selected_item_cursor + direction
        low   == IF moved < 0 THEN 0 ELSE moved
    IN  IF low >= len THEN len - 1 ELSE low

\* State::update pasting the newest entry whatever the cursor
history_update_PasteFirst(state, event) ==
    CASE event.type = "MoveHistoryCursor" ->
            IF state.state = "Loaded"
            THEN Outcome(Loaded(MoveCursor(state.selected_item_cursor, event.direction,
                                           Len(state.items)),
                                state.items),
                         NoTask, FALSE)
            ELSE Outcome(state, NoTask, FALSE)
      [] event.type = "Paste" ->
            IF state.state = "Loaded"
            THEN \* items[*selected_item_cursor as usize]: out of range panics
                 IF state.selected_item_cursor >= 0
                    /\ state.selected_item_cursor < Len(state.items)
                 THEN Outcome(state,
                              <<Done(RequestPaste(state.items[1]))>>,
                              FALSE)
                 ELSE Outcome(state, NoTask, TRUE)
            ELSE Outcome(state, NoTask, FALSE)
      [] event.type = "OpenSettings" ->
            Outcome(state, <<Done(OpenSettingsWindow)>>, FALSE)

\* State::update taking a move while Loading as a move in an empty list
history_update_MoveWhileLoading(state, event) ==
    CASE event.type = "MoveHistoryCursor" ->
            IF state.state = "Loaded"
            THEN Outcome(Loaded(MoveCursor(state.selected_item_cursor, event.direction,
                                           Len(state.items)),
                                state.items),
                         NoTask, FALSE)
            ELSE Outcome(Loaded(0, <<>>), NoTask, FALSE)
      [] event.type = "Paste" ->
            IF state.state = "Loaded"
            THEN IF state.selected_item_cursor >= 0
                    /\ state.selected_item_cursor < Len(state.items)
                 THEN Outcome(state,
                              <<Done(RequestPaste(state.items[state.selected_item_cursor + 1]))>>,
                              FALSE)
                 ELSE Outcome(state, NoTask, TRUE)
            ELSE Outcome(state, NoTask, FALSE)
      [] event.type = "OpenSettings" ->
            Outcome(state, <<Done(OpenSettingsWindow)>>, FALSE)

history_update(state, event) ==
    CASE event.type = "MoveHistoryCursor" ->
            IF state.state = "Loaded"
            THEN Outcome(Loaded(MoveCursor(state.selected_item_cursor, event.direction,
                                           Len(state.items)),
                                state.items),
                         NoTask, FALSE)
            ELSE Outcome(state, NoTask, FALSE)
      [] event.type = "Paste" ->
            IF state.state = "Loaded"
            THEN \* items[*selected_item_cursor as usize]: out of range panics
                 IF state.selected_item_cursor >= 0
                    /\ state.selected_item_cursor < Len(state.items)
                 THEN Outcome(state,
                              <<Done(RequestPaste(state.items[state.selected_item_cursor + 1]))>>,
                              FALSE)
                 ELSE Outcome(state, NoTask, TRUE)
            ELSE Outcome(state, NoTask, FALSE)
      [] event.type = "OpenSettings" ->
            Outcome(state, <<Done(OpenSettingsWindow)>>, FALSE)

\* -------------------------------------------- window::settings::State::update
settings_update(state, message) ==
    CASE message.type = "NewShortcutInput" ->
            IF state.shortcut_selection_state.tag = "Listening"
            THEN Outcome(SettingsState(state.toggle_shortcut, Listening(message.shortcut)),
                         NoTask, FALSE)
            ELSE Outcome(state, NoTask, FALSE)
      [] message.type = "ToggleShortcutSelection" ->
            IF state.shortcut_selection_state.tag = "Listening"
            THEN LET shortcut == state.shortcut_selection_state.shortcut
                 IN  Outcome(SettingsState(shortcut, NotListening),
                             <<Done(UpdateToggleShortcut(shortcut))>>, FALSE)
            ELSE Outcome(SettingsState(state.toggle_shortcut, Listening(state.toggle_shortcut)),
                         NoTask, FALSE)

\* utils::iced_event_to_shortcut: Some(shortcut) as <<shortcut>>, None as <<>>
iced_event_to_shortcut(event) ==
    IF event.kind = "KeyPressed"
    THEN <<Shortcut(event.modifiers, event.physical_key)>>
    ELSE <<>>

\* ------------------------------------------------------------ App::update
\* HashMap insert / remove on App.windows
Insert(map, id, window) ==
    [i \in DOMAIN map \cup {id} |-> IF i = id THEN window ELSE map[i]]
Remove(map, id) == [i \in DOMAIN map \ {id} |-> map[i]]

IsHistory(map, id) == id \in DOMAIN map /\ map[id].kind = "History"
IsSettings(map, id) == id \in DOMAIN map /\ map[id].kind = "Settings"
HistoryIds(map) == {i \in DOMAIN map : map[i].kind = "History"}
SettingsIds(map) == {i \in DOMAIN map : map[i].kind = "Settings"}

\* what update leaves behind: the App fields, the clipboard it wrote, the window
\* id counter it advanced, the Task it returned, and whether it panicked
Same ==
    [windows |-> windows, db |-> db, toggle_shortcut |-> toggle_shortcut,
     next_id |-> next_id, clipboard |-> clipboard, task |-> NoTask, panic |-> FALSE]

\* the guard accepting any superset of the shortcut's modifiers
ToggleMatches_Superset(shortcut, mods, event) ==
    /\ event.event_type = "KeyPress"
    /\ event.key = shortcut.rdev_key
    /\ shortcut.modifiers \subseteq mods

\* the guard of the arm Message::GlobalEvent
ToggleMatches(shortcut, mods, event) ==
    /\ event.event_type = "KeyPress"
    /\ event.key = shortcut.rdev_key
    /\ shortcut.modifiers = mods

\* the guard of the arm Message::AppEvent for a History window
HistoryToggleMatches(shortcut, event) ==
    /\ event.kind = "KeyPressed"
    /\ event.physical_key = shortcut.iced_physical_key
    /\ event.modifiers = shortcut.modifiers

\* the arm without its guard on the addressed window
on_HistoryWindowLoaded_Unguarded(message) ==
    [Same EXCEPT !.windows = Insert(windows, message.id, Loaded(0, message.items))]

\* the arm taking the result for any History window, loaded or not
on_HistoryWindowLoaded_Reload(message) ==
    IF IsHistory(windows, message.id)
    THEN [Same EXCEPT !.windows = [windows EXCEPT ![message.id] = Loaded(0, message.items)]]
    ELSE Same

on_HistoryWindowLoaded(message) ==
    IF message.id \in DOMAIN windows /\ windows[message.id] = Loading
    THEN [Same EXCEPT !.windows = [windows EXCEPT ![message.id] = Loaded(0, message.items)]]
    ELSE Same

\* the arm dropping the History windows when Settings opens
on_OpenSettingsWindow_Exclusive ==
    [Same EXCEPT !.windows = Insert([i \in SettingsIds(windows) |-> windows[i]],
                                    next_id, SettingsNew(toggle_shortcut)),
                 !.next_id = next_id + 1,
                 !.task = <<Open(next_id)>>]

on_OpenSettingsWindow ==
    [Same EXCEPT !.windows = Insert(windows, next_id, SettingsNew(toggle_shortcut)),
                 !.next_id = next_id + 1,
                 !.task = <<Open(next_id)>>]

on_RequestWindowClose(message) == [Same EXCEPT !.task = <<Close(message.id)>>]

\* the arm insisting that the slot exists (remove(..).expect(..))
on_WindowClose_Strict(message) ==
    IF message.id \in DOMAIN windows
    THEN [Same EXCEPT !.windows = Remove(windows, message.id)]
    ELSE [Same EXCEPT !.panic = TRUE]

on_WindowClose(message) == [Same EXCEPT !.windows = Remove(windows, message.id)]

\* the arm without its look at the window map
on_LooseFocus_Unguarded(message) ==
    [Same EXCEPT !.task = <<Done(RequestWindowClose(message.id))>>]

on_LooseFocus(message) ==
    IF IsHistory(windows, message.id)
    THEN [Same EXCEPT !.task = <<Done(RequestWindowClose(message.id))>>]
    ELSE Same

on_ClipboardEvent(get_text_ok) ==
    IF get_text_ok
    THEN [Same EXCEPT !.task = <<AddItem(clipboard, db)>>]
    ELSE Same

on_RequestPaste(message) ==
    [Same EXCEPT !.task = <<Done(RequestCloseHistoryWindow),
                            Done(SetClipboardItem(message.item)),
                            Done(SimulatePaste)>>]

\* the arm going on to the delete when set_text failed
on_SetClipboardItem_IgnoreFailure(message, set_text_ok) ==
    IF set_text_ok
    THEN [Same EXCEPT !.clipboard = message.item.data,
                      !.task = <<Delete(message.item, db)>>]
    ELSE [Same EXCEPT !.task = <<Delete(message.item, db)>>]

on_SetClipboardItem(message, set_text_ok) ==
    IF set_text_ok
    THEN [Same EXCEPT !.clipboard = message.item.data,
                      !.task = <<Delete(message.item, db)>>]
    ELSE [Same EXCEPT !.panic = TRUE]

\* the future releasing Ctrl before V
on_SimulatePaste_CtrlUpFirst ==
    [Same EXCEPT !.task = <<Sleep(20), Simulate(KeyPress(Key("ControlLeft"))), Sleep(40),
                            Sleep(20), Simulate(KeyPress(Key("KeyV"))), Sleep(40),
                            Sleep(20), Simulate(KeyRelease(Key("ControlLeft"))), Sleep(40),
                            Sleep(20), Simulate(KeyRelease(Key("KeyV"))), Sleep(40)>>]

\* one future; each simulate(event) sleeps 20 ms, calls rdev::simulate, and
\* sleeps 20 ms twice
on_SimulatePaste ==
    [Same EXCEPT !.task = <<Sleep(20), Simulate(KeyPress(Key("ControlLeft"))), Sleep(40),
                            Sleep(20), Simulate(KeyPress(Key("KeyV"))), Sleep(40),
                            Sleep(20), Simulate(KeyRelease(Key("KeyV"))), Sleep(40),
                            Sleep(20), Simulate(KeyRelease(Key("ControlLeft"))), Sleep(40)>>]

on_HistoryWindowEvent(message) ==
    IF IsHistory(windows, message.id)
    THEN LET out == history_update(windows[message.id], message.message)
         IN  [Same EXCEPT !.windows = [windows EXCEPT ![message.id] = out.state],
                          !.task = out.task,
                          !.panic = out.panic]
    ELSE Same

on_SettingsWindowEvent(message) ==
    IF IsSettings(windows, message.id)
    THEN LET out == settings_update(windows[message.id], message.message)
         IN  [Same EXCEPT !.windows = [windows EXCEPT ![message.id] = out.state],
                          !.task = out.task,
                          !.panic = out.panic]
    ELSE Same

\* get_history_window_id: the first History entry the HashMap iteration meets,
\* `found`; the iteration order of a HashMap is unspecified
on_RequestCloseHistoryWindow(found) ==
    IF found \in HistoryIds(windows)
    THEN [Same EXCEPT !.task = <<Done(RequestWindowClose(found))>>]
    ELSE Same

on_DbConnection == [Same EXCEPT !.db = "Connected"]

on_RequestOpenHistoryWindow ==
    [Same EXCEPT !.windows = Insert(windows, next_id, Loading),
                 !.next_id = next_id + 1,
                 !.task = <<Open(next_id), GetItems(next_id, db)>>]

on_Panic == [Same EXCEPT !.task = <<Done(ExitApp)>>]

on_ExitApp == [Same EXCEPT !.task = <<Exit>>]

on_GlobalEvent(message) ==
    IF ToggleMatches(toggle_shortcut, message.modifiers, message.event)
    THEN [Same EXCEPT !.task = <<Done(RequestOpenHistoryWindow)>>]
    ELSE Same

on_AppEvent(message) ==
    LET id == message.id
        event == message.event
    IN  IF IsHistory(windows, id)
        THEN IF HistoryToggleMatches(toggle_shortcut, event)
             THEN [Same EXCEPT !.task = <<Done(RequestCloseHistoryWindow)>>]
             ELSE CASE event.kind = "Unfocused" ->
                         [Same EXCEPT !.task = <<Done(LooseFocus(id))>>]
                    [] event.kind = "KeyPressed" ->
                         CASE event.physical_key = Code("ArrowDown") ->
                                 [Same EXCEPT !.task =
                                     <<Done(HistoryWindowEvent(id, MoveHistoryCursor(1)))>>]
                           [] event.physical_key = Code("ArrowUp") ->
                                 [Same EXCEPT !.task =
                                     <<Done(HistoryWindowEvent(id, MoveHistoryCursor(-1)))>>]
                           [] event.physical_key = Code("Escape") ->
                                 [Same EXCEPT !.task = <<Done(RequestCloseHistoryWindow)>>]
                           [] event.physical_key = Code("Enter") ->
                                 [Same EXCEPT !.task = <<Done(HistoryWindowEvent(id, Paste))>>]
                           [] OTHER -> Same
                    [] OTHER -> Same
        ELSE IF IsSettings(windows, id)
        THEN LET shortcut == iced_event_to_shortcut(event)
             IN  IF shortcut # <<>>
                 THEN [Same EXCEPT !.task =
                          <<Done(SettingsWindowEvent(id, NewShortcutInput(shortcut[1])))>>]
                 ELSE Same
        ELSE Same

\* the arm taking over the modifiers of the new shortcut only
on_UpdateToggleShortcut_ModifiersOnly(message) ==
    [Same EXCEPT !.toggle_shortcut = [toggle_shortcut EXCEPT !.modifiers = message.shortcut.modifiers]]

on_UpdateToggleShortcut(message) == [Same EXCEPT !.toggle_shortcut = message.shortcut]

\* what the handler of `message` draws from outside the App: whether the clipboard
\* call failed, and the History id the HashMap iteration finds (found, 0: none)
Draws(message) ==
    CASE message.type \in {"ClipboardEvent", "SetClipboardItem"} ->
            {[found |-> 0, failed |-> b] : b \in BOOLEAN}
      [] message.type = "RequestCloseHistoryWindow" ->
            IF HistoryIds(windows) = {}
            THEN {[found |-> 0, failed |-> FALSE]}
            ELSE {[found |-> i, failed |-> FALSE] : i \in HistoryIds(windows)}
      [] OTHER -> {[found |-> 0, failed |-> FALSE]}

update(message, draw) ==
    CASE message.type = "HistoryWindowLoaded" -> on_HistoryWindowLoaded(message)
      [] message.type = "OpenSettingsWindow" -> on_OpenSettingsWindow
      [] message.type = "RequestWindowClose" -> on_RequestWindowClose(message)
      [] message.type = "WindowClose" -> on_WindowClose(message)
      [] message.type = "LooseFocus" -> on_LooseFocus(message)
      [] message.type = "ExitApp" -> on_ExitApp
      [] message.type = "ClipboardEvent" -> on_ClipboardEvent(~draw.failed)
      [] message.type = "RequestPaste" -> on_RequestPaste(message)
      [] message.type = "SetClipboardItem" -> on_SetClipboardItem(message, ~draw.failed)
      [] message.type = "SimulatePaste" -> on_SimulatePaste
      [] message.type = "HistoryWindowEvent" -> on_HistoryWindowEvent(message)
      [] message.type = "SettingsWindowEvent" -> on_SettingsWindowEvent(message)
      [] message.type = "RequestCloseHistoryWindow" -> on_RequestCloseHistoryWindow(draw.found)
      [] message.type = "DbConnection" -> on_DbConnection
      [] message.type = "RequestOpenHistoryWindow" -> on_RequestOpenHistoryWindow
      [] message.type = "Panic" -> on_Panic
      [] message.type = "GlobalEvent" -> on_GlobalEvent(message)
      [] message.type = "AppEvent" -> on_AppEvent(message)
      [] message.type = "UpdateToggleShortcut" -> on_UpdateToggleShortcut(message)

\* ------------------------------------------------------- the event loop
Running == status = "running"

\* observations kept beside the program state: the window whose Paste started the
\* last paste flow, how often SetClipboardItem wrote the clipboard and issued its
\* delete, the shortcut a Settings window committed last, the active shortcut
\* at that moment, and the entries under the cursor when a Paste was accepted
Observe(message, result) ==
    [clipboard_sets |->
        IF message.type = "SetClipboardItem" /\ ~result.panic
        THEN obs.clipboard_sets + 1 ELSE obs.clipboard_sets,
     paste_id |->
        IF message.type = "HistoryWindowEvent" /\ message.message.type = "Paste"
           /\ result.task # NoTask
        THEN message.id ELSE obs.paste_id,
     committed |->
        IF message.type = "SettingsWindowEvent"
           /\ message.message.type = "ToggleShortcutSelection" /\ result.task # NoTask
        THEN <<result.task[1].msg.shortcut>> ELSE obs.committed,
     replaced |->
        IF message.type = "SettingsWindowEvent"
           /\ message.message.type = "ToggleShortcutSelection" /\ result.task # NoTask
        THEN <<toggle_shortcut>> ELSE obs.replaced,
     pasted |->
        IF message.type = "HistoryWindowEvent" /\ message.message.type = "Paste"
           /\ result.task # NoTask
        THEN obs.pasted \cup
                {windows[message.id].items[windows[message.id].selected_item_cursor + 1]}
        ELSE obs.pasted]

\* the messages whose handler opens a window
OpensWindow(message) ==
    message.type \in {"RequestOpenHistoryWindow", "OpenSettingsWindow"}

\* the runtime takes `message` through App::update; `others` are the tasks that
\* keep running; the Task update returns joins them
Process(message, others) ==
    /\ Running
    /\ OpensWindow(message) => next_id <= MaxWindows
    /\ \E draw \in Draws(message) :
          LET result == update(message, draw)
          IN  /\ windows' = result.windows
              /\ db' = result.db
              /\ toggle_shortcut' = result.toggle_shortcut
              /\ clipboard' = result.clipboard
              /\ next_id' = result.next_id
              /\ status' = IF result.panic THEN "panicked" ELSE status
              /\ tasks' = IF result.task = NoTask \/ result.panic
                          THEN others
                          ELSE others (+) SetToBag({result.task})
              /\ last' = [message |-> message, task |-> result.task, panic |-> result.panic]
              /\ obs' = Observe(message, result)

\* a task with its first step done
Advance(task) ==
    IF Len(task) = 1
    THEN tasks (-) SetToBag({task})
    ELSE (tasks (-) SetToBag({task})) (+) SetToBag({Tail(task)})

\* a task whose first step is replaced by `step`
Replace(task, step) ==
    (tasks (-) SetToBag({task})) (+) SetToBag({<<step>> \o Tail(task)})

NoMessage == [type |-> "None"]
\* no message was processed in this step
Quiet == [message |-> NoMessage, task |-> NoTask, panic |-> FALSE]

Frame ==
    /\ UNCHANGED <<windows, db, toggle_shortcut, clipboard, next_id, status, obs>>
    /\ last' = Quiet
Listener == <<held, rx, modifiers, sender>>

\* Task::done(message): the message reaches update
Deliver(task) ==
    /\ task[1].op = "done"
    /\ Process(task[1].msg, Advance(task))
    /\ UNCHANGED <<os_windows, storage, next_entry_id, injected, inputs>>
    /\ UNCHANGED Listener

\* iced::window::open, then gain_focus: the runtime creates the window
RunOpen(task) ==
    /\ Running /\ task[1].op = "open"
    /\ os_windows' = os_windows \cup {task[1].id}
    /\ tasks' = Advance(task)
    /\ Frame /\ UNCHANGED <<storage, next_entry_id, injected, inputs>>
    /\ UNCHANGED Listener

\* iced::window::close: the runtime removes the window if it has it, and then
\* close_events() yields Message::WindowClose(id)
RunClose(task) ==
    /\ Running /\ task[1].op = "close"
    /\ IF task[1].id \in os_windows
       THEN /\ os_windows' = os_windows \ {task[1].id}
            /\ tasks' = Advance(task) (+) SetToBag({<<Done(WindowClose(task[1].id))>>})
       ELSE /\ os_windows' = os_windows
            /\ tasks' = Advance(task)
    /\ Frame /\ UNCHANGED <<storage, next_entry_id, injected, inputs>>
    /\ UNCHANGED Listener

\* Task::perform(get_db(), ..): Message::DbConnection, or Message::Panic on Err
RunGetDb(task) ==
    /\ task[1].op = "get_db"
    /\ \/ Process(DbConnection, Advance(task))
       \/ Process(Panic, Advance(task))
    /\ UNCHANGED <<os_windows, storage, next_entry_id, injected, inputs>>
    /\ UNCHANGED Listener

\* get_items whose result is never handed to the runtime
RunGetItems_Lost(task) ==
    /\ Running /\ task[1].op = "get_items"
    /\ tasks' = tasks (-) SetToBag({task})
    /\ Frame /\ UNCHANGED <<os_windows, storage, next_entry_id, injected, inputs>>
    /\ UNCHANGED Listener

\* Task::perform(repo::get_items(&db), ..): the query runs against the handle
\* cloned when the window was requested; items.expect(..) ends the task on Err
RunGetItems(task) ==
    /\ Running /\ task[1].op = "get_items"
    /\ tasks' = IF task[1].db = "Connected"
                THEN Replace(task, Done(HistoryWindowLoaded(task[1].id, storage)))
                ELSE tasks (-) SetToBag({task})
    /\ Frame /\ UNCHANGED <<os_windows, storage, next_entry_id, injected, inputs>>
    /\ UNCHANGED Listener

\* repo::add_item: a new row, newest first in get_items' order
RunAddItem(task) ==
    /\ Running /\ task[1].op = "add_item"
    /\ IF task[1].db = "Connected"
       THEN /\ storage' = <<Entry(next_entry_id, task[1].text)>> \o storage
            /\ next_entry_id' = next_entry_id + 1
       ELSE UNCHANGED <<storage, next_entry_id>>
    /\ tasks' = Advance(task)
    /\ Frame /\ UNCHANGED <<os_windows, injected, inputs>>
    /\ UNCHANGED Listener

\* repo::delete: delete_by_id(entry.id)
RunDelete(task) ==
    /\ Running /\ task[1].op = "delete"
    /\ storage' = IF task[1].db = "Connected"
                  THEN SelectSeq(storage, LAMBDA e : e.id # task[1].item.id)
                  ELSE storage
    /\ tasks' = Advance(task)
    /\ Frame /\ UNCHANGED <<os_windows, next_entry_id, injected, inputs>>
    /\ UNCHANGED Listener

\* rdev::simulate(&event) inside SimulatePaste's future
RunSimulate(task) ==
    /\ Running /\ task[1].op = "simulate"
    /\ injected' = Append(injected, task[1].event)
    /\ tasks' = Advance(task)
    /\ Frame /\ UNCHANGED <<os_windows, storage, next_entry_id, inputs>>
    /\ UNCHANGED Listener

\* a refused injection taking the application down
RunSimulateFails_Fatal(task) ==
    /\ Running /\ task[1].op = "simulate"
    /\ tasks' = tasks (-) SetToBag({task})
    /\ status' = "panicked"
    /\ UNCHANGED <<windows, db, toggle_shortcut, clipboard, next_id, obs>>
    /\ last' = Quiet
    /\ UNCHANGED <<os_windows, storage, next_entry_id, injected, inputs>>
    /\ UNCHANGED Listener

\* rdev::simulate(&event) returns Err: unwrap() panics inside the future, the
\* executor drops the future with the steps it had left, and nothing is emitted
RunSimulateFails(task) ==
    /\ Running /\ task[1].op = "simulate"
    /\ tasks' = tasks (-) SetToBag({task})
    /\ Frame /\ UNCHANGED <<os_windows, storage, next_entry_id, injected, inputs>>
    /\ UNCHANGED Listener

\* sleep(Duration::from_millis(..)).await inside SimulatePaste's future
RunSleep(task) ==
    /\ Running /\ task[1].op = "sleep"
    /\ tasks' = Advance(task)
    /\ Frame /\ UNCHANGED <<os_windows, storage, next_entry_id, injected, inputs>>
    /\ UNCHANGED Listener

\* iced::exit
RunExit(task) ==
    /\ Running /\ task[1].op = "exit"
    /\ status' = "exited"
    /\ tasks' = Advance(task)
    /\ UNCHANGED <<windows, db, toggle_shortcut, clipboard, next_id, obs>>
    /\ last' = Quiet
    /\ UNCHANGED <<os_windows, storage, next_entry_id, injected, inputs>>
    /\ UNCHANGED Listener


\* ------------------------------------------------------------ environment
\* the key rdev::listen reports for a physical key (rdev's key names: the keypad
\* digits are Kp0..Kp9, the right Alt key is AltGr)
rdev_listen_key(physical_key) ==
    CASE physical_key = Code("Numpad1") -> Key("Kp1")
      [] physical_key = Code("AltRight") -> Key("AltGr")
      [] OTHER -> iced_key_to_rdev(physical_key)

\* rows of the database when the program starts
InitialStorages == {<<Entry(2, "b"), Entry(1, "a")>>}

\* (modifiers, event) pairs the listener delivers in Spec and SpecPaste
GlobalInputs ==
    {<<{ALT}, KeyPress(Key("F9"))>>, <<{CTRL, ALT}, KeyPress(Key("F9"))>>}

\* events the windowing system delivers to a window in Spec
WindowEvents ==
    {Unfocused, KeyPressed(Code("ArrowDown"), {}), KeyPressed(Code("Escape"), {}),
     KeyPressed(Code("F9"), {ALT})}

\* events the windowing system delivers to a window in SpecPaste
PasteWindowEvents ==
    {KeyPressed(Code("ArrowDown"), {}), KeyPressed(Code("Enter"), {}),
     KeyPressed(Code("Escape"), {})}

NoObservation ==
    [clipboard_sets |-> 0, paste_id |-> 0, committed |-> <<>>, replaced |-> <<>>,
     pasted |-> {}]

\* App::new, before the runtime has run any step of the startup task
Init ==
    /\ windows = <<>>
    /\ db = "Disconnected"
    /\ toggle_shortcut = DefaultShortcut
    /\ next_id = 1
    /\ tasks = SetToBag({<<GetDb, Done(RequestOpenHistoryWindow),
                           Done(RequestCloseHistoryWindow)>>})
    /\ os_windows = {}
    /\ clipboard = ""
    /\ storage \in InitialStorages
    /\ next_entry_id = 3
    /\ injected = <<>>
    /\ held = {}
    /\ rx = <<>>
    /\ modifiers = {}
    /\ sender = <<>>
    /\ status = "running"
    /\ inputs = 0
    /\ last = Quiet
    /\ obs = NoObservation

\* an input of the environment, the `max`-th at most: its message reaches update
InputWithin(max, message) ==
    /\ inputs < max
    /\ inputs' = inputs + 1
    /\ Process(message, tasks)
    /\ UNCHANGED <<os_windows, storage, next_entry_id, injected>>
    /\ UNCHANGED Listener

Input(message) == InputWithin(MaxInputs, message)

\* tray menu entry Open (subscribe_tray_menu_event)
TrayOpen == Input(RequestOpenHistoryWindow)

\* tray menu entry Settings
TraySettings == Input(OpenSettingsWindow)

\* the global event subscription delivers Message::GlobalEvent
GlobalInput == \E g \in GlobalInputs : Input(GlobalEvent(g[1], g[2]))

\* event::listen_with delivers Message::AppEvent for a window of the runtime
WindowInput == \E id \in os_windows : \E event \in WindowEvents : Input(AppEvent(id, event))

\* the same with the Enter key among the events
PasteWindowInput ==
    \E id \in os_windows : \E event \in PasteWindowEvents : Input(AppEvent(id, event))

\* the window lifecycle: startup, tray Open, global events, window events
Next ==
    \/ \E task \in BagToSet(tasks) : Deliver(task)
    \/ \E task \in BagToSet(tasks) : RunOpen(task)
    \/ \E task \in BagToSet(tasks) : RunClose(task)
    \/ \E task \in BagToSet(tasks) : RunGetDb(task)
    \/ \E task \in BagToSet(tasks) : RunGetItems(task)
    \/ \E task \in BagToSet(tasks) : RunExit(task)
    \/ TrayOpen
    \/ GlobalInput
    \/ WindowInput

Spec == Init /\ [][Next]_vars

\* the window lifecycle with the paste flow
NextPaste ==
    \/ \E task \in BagToSet(tasks) : Deliver(task)
    \/ \E task \in BagToSet(tasks) : RunOpen(task)
    \/ \E task \in BagToSet(tasks) : RunClose(task)
    \/ \E task \in BagToSet(tasks) : RunGetDb(task)
    \/ \E task \in BagToSet(tasks) : RunGetItems(task)
    \/ \E task \in BagToSet(tasks) : RunDelete(task)
    \/ \E task \in BagToSet(tasks) : RunSleep(task)
    \/ \E task \in BagToSet(tasks) : RunSimulate(task)
    \/ \E task \in BagToSet(tasks) : RunExit(task)
    \/ TrayOpen
    \/ GlobalInput
    \/ PasteWindowInput

SpecPaste == Init /\ [][NextPaste]_vars

\* ------------------------------------------------ one History window alone
\* rows as get_items returns them: newest (largest id) first
DataOf(id) == <<"a", "b", "c", "d", "e">>[id]
ItemsOf(n) == [i \in 1..n |-> Entry(n - i + 1, DataOf(n - i + 1))]

\* the states a History window is in right after it was opened or loaded
HistoryStates == {Loading} \cup {Loaded(0, ItemsOf(n)) : n \in 0..MaxItems}

InitHistory ==
    /\ windows \in {(1 :> state) : state \in HistoryStates}
    /\ db = "Connected"
    /\ toggle_shortcut = DefaultShortcut
    /\ next_id = 2
    /\ tasks = EmptyBag
    /\ os_windows = {1}
    /\ clipboard = ""
    /\ storage = <<>>
    /\ next_entry_id = 1
    /\ injected = <<>>
    /\ held = {}
    /\ rx = <<>>
    /\ modifiers = {}
    /\ sender = <<>>
    /\ status = "running"
    /\ inputs = 0
    /\ last = Quiet
    /\ obs = NoObservation

\* Message::HistoryWindowEvent(id, MoveHistoryCursor(±1)), as the arrow keys send it
MoveInput ==
    \E id \in DOMAIN windows : \E direction \in {-1, 1} :
        InputWithin(MaxMoves, HistoryWindowEvent(id, MoveHistoryCursor(direction)))

\* Message::HistoryWindowEvent(id, Paste), as the Enter key sends it
PasteInput ==
    \E id \in DOMAIN windows : InputWithin(MaxMoves, HistoryWindowEvent(id, Paste))

NextHistory == MoveInput \/ PasteInput

SpecHistory == InitHistory /\ [][NextHistory]_vars

\* ------------------------------------------------------ the input listener
\* the loop sending the modifier set as it was before the event
modifiers_after_Before(mods, event) == mods

\* the arms of `match event.event_type` in subscribe_global_event's loop
modifiers_after(mods, event) ==
    CASE event.event_type = "KeyPress" ->
            CASE event.key \in {Key("ControlLeft"), Key("ControlRight")} -> mods \cup {CTRL}
              [] event.key = Key("Alt") -> mods \cup {ALT}
              [] event.key \in {Key("ShiftLeft"), Key("ShiftRight")} -> mods \cup {SHIFT}
              [] event.key \in {Key("MetaLeft"), Key("MetaRight")} -> mods \cup {LOGO}
              [] OTHER -> mods
      [] event.event_type = "KeyRelease" ->
            CASE event.key \in {Key("ControlLeft"), Key("ControlRight")} -> mods \ {CTRL}
              [] event.key = Key("Alt") -> mods \ {ALT}
              [] event.key \in {Key("ShiftLeft"), Key("ShiftRight")} -> mods \ {SHIFT}
              [] event.key \in {Key("MetaLeft"), Key("MetaRight")} -> mods \ {LOGO}
              [] OTHER -> mods
      [] OTHER -> mods

\* keys the user presses in SpecListener
HookKeys == {Key("ControlLeft"), Key("ControlRight"), Key("Alt"), Key("F9")}

\* active shortcuts SpecListener starts from: the default and one a capture commits
ListenerShortcuts ==
    {DefaultShortcut, Shortcut({CTRL, ALT}, Code("F9"))}

InitListener ==
    /\ windows = <<>>
    /\ db = "Connected"
    /\ toggle_shortcut \in ListenerShortcuts
    /\ next_id = 2
    /\ tasks = EmptyBag
    /\ os_windows = {}
    /\ clipboard = ""
    /\ storage = <<>>
    /\ next_entry_id = 1
    /\ injected = <<>>
    /\ held = {}
    /\ rx = <<>>
    /\ modifiers = {}
    /\ sender = <<>>
    /\ status = "running"
    /\ inputs = 0
    /\ last = Quiet
    /\ obs = NoObservation

App == <<windows, db, toggle_shortcut, next_id, tasks, os_windows, clipboard,
         storage, next_entry_id, injected, status, obs>>

\* the callback sending with try_send: an event that finds rx full is lost
HookWithin_Lossy(max, event) ==
    /\ inputs < max
    /\ inputs' = inputs + 1
    /\ rx' = IF Len(rx) < ASYNC_CHANNEL_SIZE THEN Append(rx, event) ELSE rx
    /\ UNCHANGED <<modifiers, sender>>
    /\ UNCHANGED App
    /\ last' = Quiet

\* the callback of rdev::listen, for the `max`-th raw event at most:
\* tx.blocking_send(event) waits while rx is full
HookWithin(max, event) ==
    /\ inputs < max
    /\ Len(rx) < ASYNC_CHANNEL_SIZE
    /\ inputs' = inputs + 1
    /\ rx' = Append(rx, event)
    /\ UNCHANGED <<modifiers, sender>>
    /\ UNCHANGED App
    /\ last' = Quiet

Hook(event) == HookWithin(MaxRawEvents, event)

\* the user presses a key (a held key repeats), releases a held key, or clicks
HookKeyPress ==
    \E key \in HookKeys : held' = held \cup {key} /\ Hook(KeyPress(key))
HookKeyRelease ==
    \E key \in held : held' = held \ {key} /\ Hook(KeyRelease(key))
HookButtonPress == held' = held /\ Hook(ButtonPress)

\* one turn of the listener loop: rx.recv(), the modifier update, sender.send(..)
Listen ==
    /\ rx # <<>>
    /\ Len(sender) < ASYNC_CHANNEL_SIZE
    /\ modifiers' = modifiers_after(modifiers, Head(rx))
    /\ sender' = Append(sender, GlobalEvent(modifiers', Head(rx)))
    /\ rx' = Tail(rx)
    /\ UNCHANGED <<held, inputs>>
    /\ UNCHANGED App
    /\ last' = Quiet

\* the runtime takes the next message of the subscription's stream
DeliverGlobal ==
    /\ sender # <<>>
    /\ Process(Head(sender), tasks)
    /\ sender' = Tail(sender)
    /\ UNCHANGED <<os_windows, storage, next_entry_id, injected, inputs>>
    /\ UNCHANGED <<held, rx, modifiers>>

NextListener ==
    \/ HookKeyPress
    \/ HookKeyRelease
    \/ HookButtonPress
    \/ Listen
    \/ DeliverGlobal

SpecListener == InitListener /\ [][NextListener]_vars

\* ------------------------------------------------ the channel under load
\* the user taps the Alt key: press, release, press, ..
TapAlt ==
    IF held = {}
    THEN held' = {Key("Alt")} /\ HookWithin(MaxTaps, KeyPress(Key("Alt")))
    ELSE held' = {} /\ HookWithin(MaxTaps, KeyRelease(Key("Alt")))

NextChannel ==
    \/ TapAlt
    \/ Listen
    \/ DeliverGlobal

SpecChannel == InitListener /\ [][NextChannel]_vars

\* ------------------------------------------------ registration of the hook
\* the subscription has spawned the thread that calls rdev::listen
InitHook ==
    /\ windows = <<>>
    /\ db = "Connected"
    /\ toggle_shortcut = DefaultShortcut
    /\ next_id = 2
    /\ tasks = SetToBag({<<ListenHook>>})
    /\ os_windows = {}
    /\ clipboard = ""
    /\ storage = <<>>
    /\ next_entry_id = 1
    /\ injected = <<>>
    /\ held = {}
    /\ rx = <<>>
    /\ modifiers = {}
    /\ sender = <<>>
    /\ status = "running"
    /\ inputs = 0
    /\ last = Quiet
    /\ obs = NoObservation

\* rdev::listen returns Err before any event: the thread ends with that result,
\* which nobody reads; its closure drops tx, rx.recv() yields None, and the
\* unwrap() on it ends the subscription's future
RunListenFails(task) ==
    /\ Running /\ task[1].op = "listen"
    /\ inputs = 0
    /\ tasks' = Advance(task)
    /\ Frame /\ UNCHANGED <<os_windows, storage, next_entry_id, injected, inputs>>
    /\ UNCHANGED Listener

\* the hook is registered and reports the taps of the Alt key
HookedTap == <<ListenHook>> \in BagToSet(tasks) /\ TapAlt

NextHook ==
    \/ \E task \in BagToSet(tasks) : RunListenFails(task)
    \/ HookedTap
    \/ Listen
    \/ DeliverGlobal
    \/ TrayOpen
    \/ \E task \in BagToSet(tasks) : RunOpen(task)
    \/ \E task \in BagToSet(tasks) : RunGetItems(task)
    \/ \E task \in BagToSet(tasks) : Deliver(task)

SpecHook == InitHook /\ [][NextHook]_vars

\* -------------------------------------------------------- shortcut capture
\* keys and modifier sets the user presses in SpecCapture
CaptureKeys == {Code("KeyK"), Code("Numpad1")}
CaptureModifiers == {{}, {CTRL}}

\* a Settings window opened from the tray after startup
InitCapture ==
    /\ windows = (2 :> SettingsNew(DefaultShortcut))
    /\ db = "Connected"
    /\ toggle_shortcut = DefaultShortcut
    /\ next_id = 3
    /\ tasks = EmptyBag
    /\ os_windows = {2}
    /\ clipboard = ""
    /\ storage = <<>>
    /\ next_entry_id = 1
    /\ injected = <<>>
    /\ held = {}
    /\ rx = <<>>
    /\ modifiers = {}
    /\ sender = <<>>
    /\ status = "running"
    /\ inputs = 0
    /\ last = Quiet
    /\ obs = NoObservation

\* the user clicks the toggle-shortcut button of a Settings window (State::view)
ClickToggleShortcut ==
    \E id \in SettingsIds(windows) \cap os_windows :
        InputWithin(MaxCaptureInputs, SettingsWindowEvent(id, ToggleShortcutSelection))

\* the user presses a key with `mods` held while window `id` has the focus: the
\* window receives KeyPressed and the hook reports KeyPress, and the two messages
\* reach update in either order
PressKey ==
    \E id \in os_windows : \E physical_key \in CaptureKeys : \E mods \in CaptureModifiers :
        LET window_event == AppEvent(id, KeyPressed(physical_key, mods))
            global_event == GlobalEvent(mods, KeyPress(rdev_listen_key(physical_key)))
        IN  /\ inputs < MaxCaptureInputs
            /\ inputs' = inputs + 1
            /\ \/ Process(window_event, tasks (+) SetToBag({<<Done(global_event)>>}))
               \/ Process(global_event, tasks (+) SetToBag({<<Done(window_event)>>}))
            /\ UNCHANGED <<os_windows, storage, next_entry_id, injected>>
            /\ UNCHANGED Listener

\* the user presses the active toggle shortcut while window `id` has the focus
PressToggleWithin(max) ==
    \E id \in os_windows :
        LET window_event == AppEvent(id, KeyPressed(toggle_shortcut.iced_physical_key,
                                                    toggle_shortcut.modifiers))
            global_event == GlobalEvent(toggle_shortcut.modifiers,
                                        KeyPress(rdev_listen_key(toggle_shortcut.iced_physical_key)))
        IN  /\ inputs < max
            /\ inputs' = inputs + 1
            /\ \/ Process(window_event, tasks (+) SetToBag({<<Done(global_event)>>}))
               \/ Process(global_event, tasks (+) SetToBag({<<Done(window_event)>>}))
            /\ UNCHANGED <<os_windows, storage, next_entry_id, injected>>
            /\ UNCHANGED Listener

PressToggleShortcut == PressToggleWithin(MaxCaptureInputs)

NextCapture ==
    \/ \E task \in BagToSet(tasks) : Deliver(task)
    \/ \E task \in BagToSet(tasks) : RunOpen(task)
    \/ \E task \in BagToSet(tasks) : RunGetItems(task)
    \/ ClickToggleShortcut
    \/ PressKey

SpecCapture == InitCapture /\ [][NextCapture]_vars

\* the Settings window with the active shortcut pressed and the tray's Settings entry
NextSettings ==
    \/ \E task \in BagToSet(tasks) : Deliver(task)
    \/ \E task \in BagToSet(tasks) : RunOpen(task)
    \/ \E task \in BagToSet(tasks) : RunGetItems(task)
    \/ ClickToggleShortcut
    \/ PressToggleShortcut
    \/ TraySettings

SpecSettings == InitCapture /\ [][NextSettings]_vars

\* captures with the tray's Settings entry opening a second Settings window
NextSettingsPair ==
    \/ \E task \in BagToSet(tasks) : Deliver(task)
    \/ \E task \in BagToSet(tasks) : RunOpen(task)
    \/ ClickToggleShortcut
    \/ PressKey
    \/ TraySettings

SpecSettingsPair == InitCapture /\ [][NextSettingsPair]_vars

\* ------------------------------------------------- closing and focus loss
\* a History window and a Settings window are open; one more id is unknown
InitClose ==
    /\ windows \in {(1 :> state) @@ (2 :> SettingsNew(DefaultShortcut)) :
                       state \in {Loading, Loaded(0, ItemsOf(1))}}
    /\ db = "Connected"
    /\ toggle_shortcut = DefaultShortcut
    /\ next_id = 3
    /\ tasks = EmptyBag
    /\ os_windows = {1, 2}
    /\ clipboard = ""
    /\ storage = ItemsOf(1)
    /\ next_entry_id = 2
    /\ injected = <<>>
    /\ held = {}
    /\ rx = <<>>
    /\ modifiers = {}
    /\ sender = <<>>
    /\ status = "running"
    /\ inputs = 0
    /\ last = Quiet
    /\ obs = NoObservation

\* Message::RequestWindowClose(id) for any id, live or not
CloseRequest ==
    \E id \in 1..MaxWindows : InputWithin(MaxCloseInputs, RequestWindowClose(id))

\* Message::RequestCloseHistoryWindow
CloseHistoryRequest == InputWithin(MaxCloseInputs, RequestCloseHistoryWindow)

\* close_events(): the windowing system closed window `id` (or reports a close
\* of an id it no longer has) and Message::WindowClose(id) reaches update
CloseEvent ==
    \E id \in 1..MaxWindows :
        /\ inputs < MaxCloseInputs
        /\ inputs' = inputs + 1
        /\ os_windows' = os_windows \ {id}
        /\ Process(WindowClose(id), tasks)
        /\ UNCHANGED <<storage, next_entry_id, injected>>
        /\ UNCHANGED Listener

\* iced::window::Event::Unfocused reported for any id
Unfocus ==
    \E id \in 1..MaxWindows : InputWithin(MaxCloseInputs, AppEvent(id, Unfocused))

NextClose ==
    \/ \E task \in BagToSet(tasks) : Deliver(task)
    \/ \E task \in BagToSet(tasks) : RunClose(task)
    \/ CloseRequest
    \/ CloseHistoryRequest
    \/ CloseEvent
    \/ Unfocus

SpecClose == InitClose /\ [][NextClose]_vars

\* the runtime keeps delivering messages and running window actions
FairSpecClose ==
    /\ SpecClose
    /\ WF_vars(\E task \in BagToSet(tasks) : Deliver(task))
    /\ WF_vars(\E task \in BagToSet(tasks) : RunClose(task))

\* ------------------------------------------------- toggling the popup off
\* a History popup is open and has the focus
InitToggle ==
    /\ windows \in {(1 :> state) : state \in {Loading, Loaded(0, ItemsOf(1))}}
    /\ db = "Connected"
    /\ toggle_shortcut = DefaultShortcut
    /\ next_id = 2
    /\ tasks = IF windows[1] = Loading
               THEN SetToBag({<<GetItems(1, "Connected")>>}) ELSE EmptyBag
    /\ os_windows = {1}
    /\ clipboard = ""
    /\ storage = ItemsOf(1)
    /\ next_entry_id = 2
    /\ injected = <<>>
    /\ held = {}
    /\ rx = <<>>
    /\ modifiers = {}
    /\ sender = <<>>
    /\ status = "running"
    /\ inputs = 0
    /\ last = Quiet
    /\ obs = NoObservation

\* a newer window gained the focus (gain_focus): the older one receives Unfocused
FocusLost ==
    \E id \in os_windows :
        /\ \E newer \in os_windows : newer > id
        /\ InputWithin(MaxToggleInputs, AppEvent(id, Unfocused))

\* the user presses the toggle shortcut while the popup has the focus
PressToggleOff == PressToggleWithin(MaxToggleInputs)

NextToggle ==
    \/ \E task \in BagToSet(tasks) : Deliver(task)
    \/ \E task \in BagToSet(tasks) : RunOpen(task)
    \/ \E task \in BagToSet(tasks) : RunGetItems(task)
    \/ \E task \in BagToSet(tasks) : RunClose(task)
    \/ PressToggleOff
    \/ FocusLost

SpecToggle == InitToggle /\ [][NextToggle]_vars

\* ---------------------------------------------------- the paste synthesizer
InitSynth ==
    /\ windows = <<>>
    /\ db = "Connected"
    /\ toggle_shortcut = DefaultShortcut
    /\ next_id = 2
    /\ tasks = EmptyBag
    /\ os_windows = {}
    /\ clipboard \in {"a", "b"}
    /\ storage = <<>>
    /\ next_entry_id = 1
    /\ injected = <<>>
    /\ held = {}
    /\ rx = <<>>
    /\ modifiers = {}
    /\ sender = <<>>
    /\ status = "running"
    /\ inputs = 0
    /\ last = Quiet
    /\ obs = NoObservation

\* Message::SimulatePaste, the last message of RequestPaste's chain
SynthInput == InputWithin(MaxPastes, SimulatePaste)

NextSynth ==
    \/ \E task \in BagToSet(tasks) : RunSleep(task)
    \/ \E task \in BagToSet(tasks) : RunSimulate(task)
    \/ SynthInput

SpecSynth == InitSynth /\ [][NextSynth]_vars

\* the synthesizer with injections the OS may refuse
NextSynthFail ==
    \/ \E task \in BagToSet(tasks) : RunSleep(task)
    \/ \E task \in BagToSet(tasks) : RunSimulate(task)
    \/ \E task \in BagToSet(tasks) : RunSimulateFails(task)
    \/ SynthInput

SpecSynthFail == InitSynth /\ [][NextSynthFail]_vars

\* the executor polls every future it holds: a sleep ends, and an injection is
\* made or refused
FairSpecSynthFail ==
    /\ SpecSynthFail
    /\ WF_vars(\E task \in BagToSet(tasks) : RunSleep(task))
    /\ WF_vars(\E task \in BagToSet(tasks) : RunSimulate(task) \/ RunSimulateFails(task))

\* ------------------------------------- the hook observing the synthesizer
\* the active shortcut is the default or {Ctrl}+V, as a capture commits it
InitEcho ==
    /\ windows = <<>>
    /\ db = "Connected"
    /\ toggle_shortcut \in {DefaultShortcut, Shortcut({CTRL}, Code("KeyV"))}
    /\ next_id = 2
    /\ tasks = EmptyBag
    /\ os_windows = {}
    /\ clipboard = ""
    /\ storage = <<>>
    /\ next_entry_id = 1
    /\ injected = <<>>
    /\ held = {}
    /\ rx = <<>>
    /\ modifiers = {}
    /\ sender = <<>>
    /\ status = "running"
    /\ inputs = 0
    /\ last = Quiet
    /\ obs = NoObservation

\* rdev::simulate(&event) with the callback of rdev::listen called for the
\* injected event: tx.blocking_send(event)
RunSimulateHooked(task) ==
    /\ Running /\ task[1].op = "simulate"
    /\ Len(rx) < ASYNC_CHANNEL_SIZE
    /\ injected' = Append(injected, task[1].event)
    /\ rx' = Append(rx, task[1].event)
    /\ tasks' = Advance(task)
    /\ Frame /\ UNCHANGED <<os_windows, storage, next_entry_id, inputs>>
    /\ UNCHANGED <<held, modifiers, sender>>

NextEcho ==
    \/ \E task \in BagToSet(tasks) : RunSleep(task)
    \/ \E task \in BagToSet(tasks) : RunSimulateHooked(task)
    \/ Listen
    \/ DeliverGlobal
    \/ SynthInput

SpecEcho == InitEcho /\ [][NextEcho]_vars

\* -------------------------------------------- Paste on a loaded History window
\* a History window loaded with the n rows of the database
InitPasteFlow ==
    /\ \E n \in 1..MaxItems :
          /\ windows = (1 :> Loaded(0, ItemsOf(n)))
          /\ storage = ItemsOf(n)
          /\ next_entry_id = n + 1
    /\ db = "Connected"
    /\ toggle_shortcut = DefaultShortcut
    /\ next_id = 2
    /\ tasks = EmptyBag
    /\ os_windows = {1}
    /\ clipboard = ""
    /\ injected = <<>>
    /\ held = {}
    /\ rx = <<>>
    /\ modifiers = {}
    /\ sender = <<>>
    /\ status = "running"
    /\ inputs = 0
    /\ last = Quiet
    /\ obs = NoObservation

\* the arrow keys and Enter of window 1, as the messages their AppEvent sends
FlowMove ==
    \E direction \in {-1, 1} :
        InputWithin(MaxPasteInputs, HistoryWindowEvent(1, MoveHistoryCursor(direction)))
FlowPaste == InputWithin(MaxPasteInputs, HistoryWindowEvent(1, Paste))

NextPasteFlow ==
    \/ \E task \in BagToSet(tasks) : Deliver(task)
    \/ \E task \in BagToSet(tasks) : RunClose(task)
    \/ \E task \in BagToSet(tasks) : RunDelete(task)
    \/ FlowMove
    \/ FlowPaste

SpecPasteFlow == InitPasteFlow /\ [][NextPasteFlow]_vars

\* ------------------------------- History window messages for any window id
\* a MoveHistoryCursor or Paste addressed to any id: a History window that is
\* Loading or Loaded, a Settings window, or no window
StrayEvent ==
    \E id \in 1..MaxWindows :
        \E event \in {MoveHistoryCursor(-1), MoveHistoryCursor(1), Paste} :
            InputWithin(MaxStrayInputs, HistoryWindowEvent(id, event))

NextStray ==
    \/ \E task \in BagToSet(tasks) : Deliver(task)
    \/ \E task \in BagToSet(tasks) : RunClose(task)
    \/ \E task \in BagToSet(tasks) : RunDelete(task)
    \/ StrayEvent

SpecStray == InitClose /\ [][NextStray]_vars

\* ------------------------------------------ the load of a History window
\* no window yet, two rows in the database
InitLoad ==
    /\ windows = << >>
    /\ db = "Connected"
    /\ toggle_shortcut = DefaultShortcut
    /\ next_id = 1
    /\ tasks = EmptyBag
    /\ os_windows = {}
    /\ clipboard = ""
    /\ storage = ItemsOf(2)
    /\ next_entry_id = 3
    /\ injected = <<>>
    /\ held = {}
    /\ rx = <<>>
    /\ modifiers = {}
    /\ sender = <<>>
    /\ status = "running"
    /\ inputs = 0
    /\ last = Quiet
    /\ obs = NoObservation

LoadOpen == InputWithin(MaxLoadInputs, RequestOpenHistoryWindow)

\* ArrowDown in a History window
LoadMove ==
    \E id \in HistoryIds(windows) :
        InputWithin(MaxLoadInputs, HistoryWindowEvent(id, MoveHistoryCursor(1)))

\* Message::HistoryWindowLoaded(id, items) once more, for any id and row list
LoadedAgain ==
    \E id \in 1..MaxWindows : \E n \in 0..MaxItems :
        InputWithin(MaxLoadInputs, HistoryWindowLoaded(id, ItemsOf(n)))

\* Escape in a History window
LoadClose == InputWithin(MaxLoadInputs, RequestCloseHistoryWindow)

NextLoad ==
    \/ \E task \in BagToSet(tasks) : Deliver(task)
    \/ \E task \in BagToSet(tasks) : RunOpen(task)
    \/ \E task \in BagToSet(tasks) : RunGetItems(task)
    \/ \E task \in BagToSet(tasks) : RunClose(task)
    \/ LoadOpen
    \/ LoadMove
    \/ LoadedAgain
    \/ LoadClose

SpecLoad == InitLoad /\ [][NextLoad]_vars

\* capture in a Settings window that the windowing system may close at any time
NextDiscard ==
    \/ \E task \in BagToSet(tasks) : Deliver(task)
    \/ ClickToggleShortcut
    \/ PressKey
    \/ CloseEvent

SpecDiscard == InitCapture /\ [][NextDiscard]_vars

\* ------------------------------------- whole paste flows, failing or not
\* ------------------------------------------- capture over the whole keyboard
\* the physical keys with a code: those iced_key_to_rdev has an arm for, and
\* two it has none for
PhysicalKeys == {Code(row[1]) : row \in CodeTable} \cup {Code("F13"), Code("ContextMenu")}

\* a Settings window is Listening; the active shortcut was captured on some key
InitKeys ==
    /\ toggle_shortcut \in {Shortcut({}, physical_key) : physical_key \in PhysicalKeys}
    /\ windows = (2 :> SettingsState(toggle_shortcut, Listening(toggle_shortcut)))
    /\ db = "Connected"
    /\ next_id = 3
    /\ tasks = EmptyBag
    /\ os_windows = {2}
    /\ clipboard = ""
    /\ storage = <<>>
    /\ next_entry_id = 1
    /\ injected = <<>>
    /\ held = {}
    /\ rx = <<>>
    /\ modifiers = {}
    /\ sender = <<>>
    /\ status = "running"
    /\ inputs = 0
    /\ last = Quiet
    /\ obs = NoObservation

\* the user presses a key, no modifier held, in the Settings window
CaptureKey ==
    \E physical_key \in PhysicalKeys :
        InputWithin(MaxKeyInputs, AppEvent(2, KeyPressed(physical_key, {})))

NextKeys ==
    \/ \E task \in BagToSet(tasks) : Deliver(task)
    \/ CaptureKey

SpecKeys == InitKeys /\ [][NextKeys]_vars

\* Enter in the loaded History window: RequestPaste's chain with the
\* synthesizer, the clipboard write failing or not
StartFlow == InputWithin(MaxFlows, HistoryWindowEvent(1, Paste))

NextAbort ==
    \/ \E task \in BagToSet(tasks) : Deliver(task)
    \/ \E task \in BagToSet(tasks) : RunClose(task)
    \/ \E task \in BagToSet(tasks) : RunDelete(task)
    \/ \E task \in BagToSet(tasks) : RunSleep(task)
    \/ \E task \in BagToSet(tasks) : RunSimulate(task)
    \/ StartFlow

SpecAbort == InitPasteFlow /\ [][NextAbort]_vars

\* ------------------------------------------------ completion of the load
\* no window is open and the connection attempt has succeeded or not yet
InitLive ==
    /\ windows = << >>
    /\ db \in {"Connected", "Disconnected"}
    /\ toggle_shortcut = DefaultShortcut
    /\ next_id = 1
    /\ tasks = EmptyBag
    /\ os_windows = {}
    /\ clipboard = ""
    /\ storage = ItemsOf(2)
    /\ next_entry_id = 3
    /\ injected = <<>>
    /\ held = {}
    /\ rx = <<>>
    /\ modifiers = {}
    /\ sender = <<>>
    /\ status = "running"
    /\ inputs = 0
    /\ last = Quiet
    /\ obs = NoObservation

NextLive ==
    \/ \E task \in BagToSet(tasks) : Deliver(task)
    \/ \E task \in BagToSet(tasks) : RunOpen(task)
    \/ \E task \in BagToSet(tasks) : RunGetItems(task)
    \/ \E task \in BagToSet(tasks) : RunClose(task)
    \/ LoadOpen
    \/ LoadMove
    \/ LoadClose

SpecLive == InitLive /\ [][NextLive]_vars

\* the runtime polls every task it holds and hands every produced message to
\* update
FairSpecLive ==
    /\ SpecLive
    /\ WF_vars(\E task \in BagToSet(tasks) : Deliver(task))
    /\ WF_vars(\E task \in BagToSet(tasks) : RunOpen(task))
    /\ WF_vars(\E task \in BagToSet(tasks) : RunGetItems(task))

\* ------------------------------------------- pastes seen by the clipboard watcher
\* a History window loaded with the two rows of the database
InitRepaste == InitPasteFlow /\ Len(storage) = 2

\* the runtime hands a message to update; when SetClipboardItem has written the
\* clipboard the watcher thread calls on_clipboard_change and
\* ClipboardListener::subscribe sends Message::ClipboardEvent
DeliverNotified(task) ==
    /\ task[1].op = "done"
    /\ Process(task[1].msg,
               IF task[1].msg.type = "SetClipboardItem"
               THEN Advance(task) (+) SetToBag({<<Done(ClipboardEvent)>>})
               ELSE Advance(task))
    /\ UNCHANGED <<os_windows, storage, next_entry_id, injected, inputs>>
    /\ UNCHANGED Listener

NextRepaste ==
    \/ \E task \in BagToSet(tasks) : DeliverNotified(task)
    \/ \E task \in BagToSet(tasks) : RunClose(task)
    \/ \E task \in BagToSet(tasks) : RunDelete(task)
    \/ \E task \in BagToSet(tasks) : RunAddItem(task)
    \/ FlowMove
    \/ FlowPaste

SpecRepaste == InitRepaste /\ [][NextRepaste]_vars

\* --------------------------------- History and Settings windows side by side
\* a History and a Settings window are open; the tray opens further windows, the
\* user starts and ends captures, and windows are closed
NextCoexist ==
    \/ \E task \in BagToSet(tasks) : Deliver(task)
    \/ \E task \in BagToSet(tasks) : RunOpen(task)
    \/ \E task \in BagToSet(tasks) : RunGetItems(task)
    \/ \E task \in BagToSet(tasks) : RunClose(task)
    \/ TrayOpen
    \/ TraySettings
    \/ ClickToggleShortcut
    \/ CloseEvent
    \/ CloseHistoryRequest

SpecCoexist == InitClose /\ [][NextCoexist]_vars

\* ------------------------------------------------------------------ claims

\* C1: in every reachable state at most one History window is live in the window
\* map; a RequestOpenHistoryWindow processed while one is live creates no second one
C1_AtMostOneHistory == Cardinality(HistoryIds(windows)) <= 1

\* C4: a HistoryWindowLoaded(id, items) processed when id has no slot leaves the
\* window map as it was; processed in any state it creates no slot and changes no
\* window other than id
C4_StaleLoadIgnored ==
    [][last'.message.type = "HistoryWindowLoaded" =>
          /\ DOMAIN windows' = DOMAIN windows
          /\ \A i \in DOMAIN windows : i # last'.message.id => windows'[i] = windows[i]
          /\ last'.message.id \notin DOMAIN windows => windows' = windows]_vars

\* a load completed for a window closed meanwhile, with a newer History window live
C4_Witness ==
    /\ last.message.type = "HistoryWindowLoaded"
    /\ last.message.id \notin DOMAIN windows
    /\ \E i \in HistoryIds(windows) : i > last.message.id

\* C5: a paste flow's effects come in strict order: the History slot is absent when
\* the clipboard is set, the clipboard is set before the delete is issued, and the
\* delete is issued before the first synthetic key event
C5_PasteOrder ==
    /\ last.message.type = "SetClipboardItem" /\ ~last.panic
          => obs.paste_id \notin DOMAIN windows
    /\ \A task \in BagToSet(tasks) :
          (\E i \in 1..Len(task) : task[i].op = "delete") => obs.clipboard_sets >= 1
    /\ injected # <<>> => obs.clipboard_sets >= 1

\* the GlobalEvent processed in the last step led to RequestOpenHistoryWindow
Fired(step) == step.task = <<Done(RequestOpenHistoryWindow)>>

\* C2: toggle detection fires if and only if the event is a key-press of the active
\* shortcut's key and the modifier set carried with it equals the shortcut's set
\* exactly; with {Alt}+F9 active, F9 with Ctrl and Alt does not fire and F9 with
\* Alt alone does
C2_ToggleIff ==
    last.message.type = "GlobalEvent" =>
        /\ Fired(last) <=>
              /\ last.message.event.event_type = "KeyPress"
              /\ last.message.event.key = toggle_shortcut.rdev_key
              /\ last.message.modifiers = toggle_shortcut.modifiers
        /\ ~Fired(last) => last.task = NoTask
        /\ toggle_shortcut = DefaultShortcut
              /\ last.message = GlobalEvent({CTRL, ALT}, KeyPress(Key("F9")))
              => ~Fired(last)
        /\ toggle_shortcut = DefaultShortcut
              /\ last.message = GlobalEvent({ALT}, KeyPress(Key("F9")))
              => Fired(last)

\* after Ctrl, Alt and F9 were pressed and Ctrl released, F9 pressed again with Alt
\* still held fires, and it is the only press that fired
C2_Witness ==
    /\ toggle_shortcut = DefaultShortcut
    /\ last.message = GlobalEvent({ALT}, KeyPress(Key("F9")))
    /\ Fired(last)
    /\ inputs = 5
    /\ held = {Key("Alt"), Key("F9")}
    /\ rx = <<>> /\ sender = <<>>
    /\ tasks = SetToBag({<<Done(RequestOpenHistoryWindow)>>})

\* the flags of the modifiers with at least one key held
HeldFlags(keys) ==
    {flag \in ModifierFlags :
        \/ flag = CTRL /\ keys \cap {Key("ControlLeft"), Key("ControlRight")} # {}
        \/ flag = ALT /\ Key("Alt") \in keys
        \/ flag = SHIFT /\ keys \cap {Key("ShiftLeft"), Key("ShiftRight")} # {}
        \/ flag = LOGO /\ keys \cap {Key("MetaLeft"), Key("MetaRight")} # {}}

\* C3: after the listener has replayed every press and release, the tracked
\* modifier set holds a flag exactly when a key of that modifier is held
C3_ModifiersTrackHeld == rx = <<>> => modifiers = HeldFlags(held)

\* History window `id` is Loaded with an empty item list
LoadedEmpty(id) ==
    /\ IsHistory(windows, id)
    /\ windows[id].state = "Loaded"
    /\ windows[id].items = <<>>

\* C6: a Paste on a Loaded History window with no items is a no-op: nothing is
\* requested, nothing fails
C6_PasteOnEmptyIsNoOp ==
    /\ last.message.type = "HistoryWindowEvent"
    /\ last.message.message.type = "Paste"
    /\ LoadedEmpty(last.message.id)
    => /\ status = "running"
       /\ ~last.panic
       /\ last.task = NoTask

Clamp(x, low, high) == IF x < low THEN low ELSE IF x > high THEN high ELSE x

\* C7: on a Loaded History state with len >= 1 and 0 <= cursor < len,
\* MoveHistoryCursor(d), d in {-1, +1}, sets the cursor to clamp(cursor + d, 0, len-1)
\* and leaves the items; so 0 <= cursor < len holds after any sequence of moves
C7_MoveClamps ==
    /\ [](\A id \in HistoryIds(windows) :
            windows[id].state = "Loaded" /\ Len(windows[id].items) >= 1
            => /\ 0 <= windows[id].selected_item_cursor
               /\ windows[id].selected_item_cursor < Len(windows[id].items))
    /\ [][\A id \in HistoryIds(windows) :
            /\ last'.message.type = "HistoryWindowEvent"
            /\ last'.message.id = id
            /\ last'.message.message.type = "MoveHistoryCursor"
            /\ windows[id].state = "Loaded"
            /\ Len(windows[id].items) >= 1
            => windows'[id] =
                  Loaded(Clamp(windows[id].selected_item_cursor
                                  + last'.message.message.direction,
                               0, Len(windows[id].items) - 1),
                         windows[id].items)]_vars

\* MoveHistoryCursor(-1) as the first move of a window with several items leaves
\* the cursor at 0
C7_Witness ==
    /\ inputs = 1
    /\ last.message.type = "HistoryWindowEvent"
    /\ last.message.message = MoveHistoryCursor(-1)
    /\ IsHistory(windows, last.message.id)
    /\ windows[last.message.id].state = "Loaded"
    /\ Len(windows[last.message.id].items) >= 2
    /\ windows[last.message.id].selected_item_cursor = 0

\* C8: with an empty Loaded item list the cursor is 0 after any sequence of moves
C8_EmptyCursorZero ==
    \A id \in HistoryIds(windows) :
        LoadedEmpty(id) => windows[id].selected_item_cursor = 0

\* C9: once a Settings window has committed a shortcut, every GlobalEvent processed
\* afterwards is matched against that shortcut
C9_CommitSynchronous ==
    last.message.type = "GlobalEvent" /\ obs.committed # <<>> =>
        (Fired(last) <=>
            /\ last.message.event.event_type = "KeyPress"
            /\ last.message.event.key = obs.committed[1].rdev_key
            /\ last.message.modifiers = obs.committed[1].modifiers)

\* the GlobalEvent of the physical key of `shortcut` pressed with exactly its modifiers
PressOf(shortcut) ==
    GlobalEvent(shortcut.modifiers, KeyPress(rdev_listen_key(shortcut.iced_physical_key)))

\* C10: after key K was captured with modifier set M and committed, {M}+K is the
\* active shortcut once UpdateToggleShortcut is processed; a key press of K with
\* exactly M made after that fires toggle detection, and a press of the previous
\* shortcut, when different, does not
C10_CaptureRoundTrip ==
    [][/\ last'.message.type = "UpdateToggleShortcut" =>
             obs.committed # <<>> /\ toggle_shortcut' = obs.committed[1]
       /\ /\ obs.committed # <<>>
          /\ toggle_shortcut = obs.committed[1]
          /\ inputs' = inputs + 1
          /\ last'.message.type = "GlobalEvent"
          => /\ last'.message = PressOf(toggle_shortcut) => Fired(last')
             /\ /\ last'.message = PressOf(obs.replaced[1])
                /\ obs.replaced[1].modifiers # toggle_shortcut.modifiers
                     \/ obs.replaced[1].iced_physical_key # toggle_shortcut.iced_physical_key
                => ~Fired(last')]_vars

\* a Settings window is capturing a shortcut
SomeListening ==
    \E id \in SettingsIds(windows) : windows[id].shortcut_selection_state.tag = "Listening"

\* C11: while a Settings window is in Listening, no key press that update processes
\* (the global event or the window event) requests the History window to open or close
C11_CaptureSuppressesToggle ==
    /\ SomeListening
    /\ \/ last.message.type = "GlobalEvent" /\ last.message.event.event_type = "KeyPress"
       \/ last.message.type = "AppEvent" /\ last.message.event.kind = "KeyPressed"
    => last.task \notin {<<Done(RequestOpenHistoryWindow)>>, <<Done(RequestCloseHistoryWindow)>>}

\* C16: at most one Settings window is live in every reachable state; an
\* OpenSettingsWindow processed while one is live creates no second one
C16_AtMostOneSettings == Cardinality(SettingsIds(windows)) <= 1

\* C12: once a close request for a live History window has been processed
\* (RequestWindowClose(id), or RequestCloseHistoryWindow naming id), the slot of
\* that window is absent from the window map
C12_CloseRequestRemovesSlot ==
    /\ last.message.type = "RequestWindowClose"
          => last.message.id \notin HistoryIds(windows)
    /\ last.message.type = "RequestCloseHistoryWindow" /\ last.task # NoTask
          => last.task[1].msg.id \notin HistoryIds(windows)

\* the fields of the App and the clipboard and database it writes
AppState == <<windows, db, toggle_shortcut, clipboard, storage, next_id, status>>

\* C13: a close request or close event for an id whose slot is absent, and a
\* RequestCloseHistoryWindow with no History window, leave the window map and all
\* other state unchanged; a close event leaves exactly that slot absent and a close
\* request changes no other slot, so the two end in the same window map, without
\* the slot, in either order and however often they are repeated
C13_CloseIdempotent ==
    [][\A id \in 1..MaxWindows :
        /\ last'.message \in {RequestWindowClose(id), WindowClose(id)}
              /\ id \notin DOMAIN windows
              => AppState' = AppState
        /\ last'.message = RequestCloseHistoryWindow /\ HistoryIds(windows) = {}
              => AppState' = AppState /\ last'.task = NoTask
        /\ last'.message = WindowClose(id)
              => windows' = Remove(windows, id) /\ id \notin DOMAIN windows'
        /\ last'.message = RequestWindowClose(id)
              => windows' \in {windows, Remove(windows, id)}]_vars

\* a close request for window 1 is processed after its close event removed the slot
C13_Witness ==
    /\ last.message = RequestWindowClose(1)
    /\ 1 \notin DOMAIN windows
    /\ 1 \notin os_windows
    /\ 2 \in DOMAIN windows

\* C14: an Unfocused event for a live History window leads to that window being
\* closed; an Unfocused event or LooseFocus for a Settings window or an unknown id
\* closes nothing
C14_ClickAwayDismiss ==
    /\ \A id \in 1..MaxWindows :
          (last.message = AppEvent(id, Unfocused) /\ IsHistory(windows, id))
              ~> (id \notin DOMAIN windows /\ id \notin os_windows)
    /\ [][\A id \in 1..MaxWindows :
            /\ last'.message \in {AppEvent(id, Unfocused), LooseFocus(id)}
            /\ ~IsHistory(windows, id)
            => /\ last'.task = NoTask
               /\ windows' = windows
               /\ os_windows' = os_windows]_vars

\* the focus loss of History window 1 was turned into its close request, while an
\* Unfocused for the Settings window had been ignored
C14_Witness ==
    /\ last.message = LooseFocus(1)
    /\ last.task = <<Done(RequestWindowClose(1))>>
    /\ IsHistory(windows, 1)
    /\ IsSettings(windows, 2)

\* C15: the toggle shortcut pressed once while a History popup is live and
\* focused: when every message that press caused, every focus loss and every
\* resulting close event has been processed, no History window is live
\* (in SpecToggle a window is opened only by a press, so next_id = 3 at rest
\* means exactly one press)
C15_ToggleOff ==
    tasks = EmptyBag /\ next_id = 3 /\ inputs >= 1 => HistoryIds(windows) = {}

\* the four synthetic events of a paste, in order
FourEvents ==
    <<KeyPress(Key("ControlLeft")), KeyPress(Key("KeyV")),
      KeyRelease(Key("KeyV")), KeyRelease(Key("ControlLeft"))>>

\* the steps of one invocation: a delay before and after each of the four events
PasteSteps ==
    [i \in 1..12 |-> IF i % 3 = 1 THEN Sleep(20)
                     ELSE IF i % 3 = 2 THEN Simulate(FourEvents[(i + 1) \div 3])
                     ELSE Sleep(40)]

IsSuffix(task, steps) ==
    /\ Len(task) <= Len(steps)
    /\ \A i \in 1..Len(task) : task[i] = steps[Len(steps) - Len(task) + i]

\* how often `event` occurs among the first n synthetic events
Injected(event, n) == Cardinality({i \in 1..n : injected[i] = event})

\* invocations in flight that have not yet emitted `event`
Pending(event) ==
    LET waiting == {task \in BagToSet(tasks) :
                       \E i \in 1..Len(task) : task[i] = Simulate(event)}
        RECURSIVE Sum(_)
        Sum(set) == IF set = {} THEN 0
                    ELSE LET task == CHOOSE t \in set : TRUE
                         IN  CopiesIn(task, tasks) + Sum(set \ {task})
    IN  Sum(waiting)

IdsOf(rows) == {rows[i].id : i \in 1..Len(rows)}

\* C18: Paste on a Loaded History window with cursor c in range asks to paste
\* items[c]; RequestPaste hands that same entry to SetClipboardItem, which sets
\* the clipboard to its text and issues the delete of that entry; the clipboard
\* is written by nothing else, every delete in flight is for an entry that was
\* under the cursor at a Paste, and the database loses only such entries
C18_PasteSelected ==
    /\ \A task \in BagToSet(tasks) : \A i \in 1..Len(task) :
          task[i].op = "delete" => task[i].item \in obs.pasted
    /\ [][/\ \A id \in DOMAIN windows :
                /\ last'.message = HistoryWindowEvent(id, Paste)
                /\ IsHistory(windows, id)
                /\ windows[id].state = "Loaded"
                /\ windows[id].selected_item_cursor \in 0..(Len(windows[id].items) - 1)
                => /\ ~last'.panic
                   /\ windows' = windows
                   /\ last'.task =
                         <<Done(RequestPaste(
                               windows[id].items[windows[id].selected_item_cursor + 1]))>>
          /\ last'.message.type = "RequestPaste"
                => /\ Len(last'.task) = 3
                   /\ last'.task[2] = Done(SetClipboardItem(last'.message.item))
                   /\ clipboard' = clipboard
          /\ last'.message.type = "SetClipboardItem" /\ ~last'.panic
                => /\ clipboard' = last'.message.item.data
                   /\ last'.task = <<Delete(last'.message.item, db)>>
                   /\ last'.message.item \in obs.pasted
          /\ clipboard' # clipboard => last'.message.type = "SetClipboardItem"
          /\ storage' # storage
                => /\ IdsOf(storage) \ IdsOf(storage') \subseteq {item.id : item \in obs.pasted}
                   /\ \E item \in obs.pasted :
                         storage' = SelectSeq(storage, LAMBDA e : e.id # item.id)
         ]_vars

\* the second of two entries was pasted with the cursor on it: its text is on the
\* clipboard and it alone left the database
C18_Witness ==
    /\ obs.pasted = {ItemsOf(2)[2]}
    /\ clipboard = ItemsOf(2)[2].data
    /\ storage = <<ItemsOf(2)[1]>>
    /\ 1 \notin DOMAIN windows

\* C19: a MoveHistoryCursor or Paste for an id whose slot is a Loading History
\* window, a Settings window or absent changes neither the window map nor any
\* other field, returns no task and does not panic, so that no clipboard write,
\* delete or synthesizer invocation follows from it
C19_StrayEventsIgnored ==
    [][\A id \in 1..MaxWindows :
          /\ last'.message \in {HistoryWindowEvent(id, MoveHistoryCursor(-1)),
                                HistoryWindowEvent(id, MoveHistoryCursor(1)),
                                HistoryWindowEvent(id, Paste)}
          /\ \/ id \notin DOMAIN windows
             \/ ~IsHistory(windows, id)
             \/ windows[id] = Loading
          => /\ AppState' = AppState
             /\ last'.task = NoTask
             /\ ~last'.panic
             /\ tasks' \sqsubseteq tasks
             /\ injected' = injected
             /\ obs' = obs]_vars

\* a Paste has just been taken for the Settings window, and the History window
\* beside it is still Loading
C19_Witness ==
    /\ last.message = HistoryWindowEvent(2, Paste)
    /\ IsSettings(windows, 2)
    /\ 1 \in DOMAIN windows /\ windows[1] = Loading
    /\ inputs = 2

\* C20: a History window is Loading when its slot is created, under an id that
\* was never used before; a Loading window either stays Loading or becomes
\* Loaded with cursor 0 and the items of a HistoryWindowLoaded for its id; a
\* Loaded window stays Loaded with the same items, and a HistoryWindowLoaded for
\* it changes neither its items nor its cursor
C20_LoadedOnce ==
    /\ \A id \in DOMAIN windows : id < next_id
    /\ [][\A id \in 1..MaxWindows :
             /\ id \notin DOMAIN windows /\ IsHistory(windows', id)
                   => /\ windows'[id] = Loading
                      /\ id = next_id
                      /\ next_id' = next_id + 1
             /\ IsHistory(windows, id) /\ windows[id] = Loading /\ id \in DOMAIN windows'
                   => \/ windows'[id] = Loading
                      \/ /\ last'.message.type = "HistoryWindowLoaded"
                         /\ last'.message.id = id
                         /\ windows'[id] = Loaded(0, last'.message.items)
             /\ IsHistory(windows, id) /\ windows[id].state = "Loaded" /\ id \in DOMAIN windows'
                   => /\ windows'[id].state = "Loaded"
                      /\ windows'[id].items = windows[id].items
                      /\ last'.message.type = "HistoryWindowLoaded"
                            => windows'[id] = windows[id]
         ]_vars

\* a second HistoryWindowLoaded, with other items, has just been taken for a
\* window that was loaded with the two rows and whose cursor was moved to 1
C20_Witness ==
    /\ last.message.type = "HistoryWindowLoaded"
    /\ last.message.id = 1
    /\ last.message.items # ItemsOf(2)
    /\ 1 \in DOMAIN windows
    /\ windows[1] = Loaded(1, ItemsOf(2))

\* C21: a Settings window that enters Listening takes the active shortcut of the
\* application as pending; while it is Listening a NewShortcutInput replaces
\* pending by the shortcut of the key press; a key release sent to the window
\* yields no message; a NewShortcutInput while NotListening changes nothing
C21_CaptureState ==
    [][\A id \in SettingsIds(windows) \cap SettingsIds(windows') :
          LET before == windows[id].shortcut_selection_state
              after  == windows'[id].shortcut_selection_state
          IN  /\ before.tag = "NotListening" /\ after.tag = "Listening"
                    => after.shortcut = toggle_shortcut
              /\ (/\ last'.message.type = "SettingsWindowEvent"
                  /\ last'.message.id = id
                  /\ last'.message.message.type = "NewShortcutInput")
                    => IF before.tag = "Listening"
                       THEN after = Listening(last'.message.message.shortcut)
                       ELSE windows' = windows /\ last'.task = NoTask
              /\ (/\ last'.message.type = "AppEvent"
                  /\ last'.message.id = id
                  /\ last'.message.event.kind = "KeyReleased")
                    => windows' = windows /\ last'.task = NoTask]_vars

\* the shortcut a Settings window is about to commit: a ToggleShortcutSelection
\* for a Listening window
Commits(message) ==
    /\ message.type = "SettingsWindowEvent"
    /\ message.message.type = "ToggleShortcutSelection"
    /\ IsSettings(windows, message.id)
    /\ windows[message.id].shortcut_selection_state.tag = "Listening"

\* C22: the active shortcut changes only when an UpdateToggleShortcut is
\* processed, and then it becomes the shortcut of that message as a whole; an
\* UpdateToggleShortcut is issued by nothing but a commit, carrying the pending
\* shortcut of the window that leaves Listening; key presses captured while
\* Listening and the close of a Listening Settings window leave it unchanged
C22_ActiveShortcutFrame ==
    [][/\ toggle_shortcut' # toggle_shortcut
             => /\ last'.message.type = "UpdateToggleShortcut"
                /\ toggle_shortcut' = last'.message.shortcut
       /\ last'.message.type = "UpdateToggleShortcut"
             => toggle_shortcut' = last'.message.shortcut
       /\ \A task \in BagToSet(tasks') :
             (\E i \in 1..Len(task) : task[i].op = "done" /\ task[i].msg.type = "UpdateToggleShortcut")
             /\ CopiesIn(task, tasks') > CopiesIn(task, tasks)
             => /\ Commits(last'.message)
                /\ task = <<Done(UpdateToggleShortcut(
                       windows[last'.message.id].shortcut_selection_state.shortcut))>>
       /\ Commits(last'.message)
             => /\ last'.task = <<Done(UpdateToggleShortcut(
                       windows[last'.message.id].shortcut_selection_state.shortcut))>>
                /\ toggle_shortcut' = toggle_shortcut
       /\ last'.message.type = "WindowClose" /\ SomeListening
             => toggle_shortcut' = toggle_shortcut /\ last'.task = NoTask
      ]_vars

\* the commit of Ctrl+K has reached the application: Ctrl+K is the active
\* shortcut and the Settings window is back in NotListening
C22_Witness ==
    /\ last.message.type = "UpdateToggleShortcut"
    /\ toggle_shortcut = Shortcut({CTRL}, Code("KeyK"))
    /\ windows = (2 :> SettingsState(toggle_shortcut, NotListening))

\* the i-th raw event of a user tapping Alt
Tap(i) == IF i % 2 = 1 THEN KeyPress(Key("Alt")) ELSE KeyRelease(Key("Alt"))

\* C23: the channel from the hook to the listener never holds more than
\* ASYNC_CHANNEL_SIZE events; the events waiting in it and the messages waiting
\* behind it are, in order and without gap or repetition, the raw events between
\* the last one the event loop took and the last one produced; the event loop
\* takes the oldest waiting message, and a full channel makes the hook wait
C23_ChannelBackPressure ==
    /\ Len(rx) <= ASYNC_CHANNEL_SIZE
    /\ \A k \in 1..Len(rx) : rx[k] = Tap(inputs - Len(rx) + k)
    /\ \A k \in 1..Len(sender) :
          /\ sender[k].type = "GlobalEvent"
          /\ sender[k].event = Tap(inputs - Len(rx) - Len(sender) + k)
    /\ [][/\ last'.message.type = "GlobalEvent"
                => /\ sender # <<>>
                   /\ last'.message = Head(sender)
                   /\ sender' = Tail(sender)
          /\ inputs' # inputs
                => Len(rx) < ASYNC_CHANNEL_SIZE /\ rx' = Append(rx, Tap(inputs'))
          /\ rx' # rx /\ inputs' = inputs
                => /\ rx' = Tail(rx)
                   /\ Len(sender') = Len(sender) + 1
                   /\ sender'[Len(sender')].event = Head(rx)
         ]_vars

\* the channel is full, with the eleventh event produced after the event loop
\* took the first one
C23_Witness ==
    /\ Len(rx) = ASYNC_CHANNEL_SIZE
    /\ inputs > ASYNC_CHANNEL_SIZE
    /\ last.message.type = "GlobalEvent"

\* the flag of a modifier key, as a set: empty for any other key
FlagOf(key) ==
    CASE key \in {Key("ControlLeft"), Key("ControlRight")} -> {CTRL}
      [] key = Key("Alt") -> {ALT}
      [] key \in {Key("ShiftLeft"), Key("ShiftRight")} -> {SHIFT}
      [] key \in {Key("MetaLeft"), Key("MetaRight")} -> {LOGO}
      [] OTHER -> {}

\* C24: whenever the listener takes a raw event it sends exactly one GlobalEvent,
\* carrying that event and the modifier set after it: the set before plus the
\* flag of a modifier key pressed, minus the flag of a modifier key released,
\* and the set before for every other event; nothing else sends a GlobalEvent
C24_ModifiersAfterEvent ==
    [][/\ rx' # rx /\ inputs' = inputs
             => LET event == Head(rx)
                    sent  == sender'[Len(sender')]
                IN  /\ sender' = Append(sender, sent)
                    /\ sent.type = "GlobalEvent"
                    /\ sent.event = event
                    /\ sent.modifiers = modifiers'
                    /\ sent.modifiers =
                          CASE event.event_type = "KeyPress" ->
                                  modifiers \cup FlagOf(event.key)
                            [] event.event_type = "KeyRelease" ->
                                  modifiers \ FlagOf(event.key)
                            [] OTHER -> modifiers
       /\ Len(sender') > Len(sender) => rx' = Tail(rx) /\ Len(sender') = Len(sender) + 1
       /\ modifiers' # modifiers => rx' = Tail(rx)
      ]_vars

\* the release of the right Ctrl key, pressed after the left one and with Alt
\* held, was sent with Alt alone
C24_Witness ==
    /\ sender # <<>>
    /\ sender[Len(sender)] = GlobalEvent({ALT}, KeyRelease(Key("ControlRight")))
    /\ Key("ControlLeft") \in held

\* C25: when SetClipboardItem's clipboard write fails (the clipboard does not get
\* the entry's text) the step panics: it returns no task, so that no delete is
\* issued, and the application
\* stops; from then on nothing is deleted, no synthetic key event is emitted and
\* no further message is processed, so the flow's SimulatePaste never runs
C25_WriteFailureAborts ==
    [][/\ (/\ last'.message.type = "SetClipboardItem"
           /\ (last'.panic \/ clipboard' # last'.message.item.data))
             => /\ status' = "panicked"
                /\ last'.task = NoTask
                /\ clipboard' = clipboard
                /\ storage' = storage
                /\ injected' = injected
                /\ \A task \in BagToSet(tasks') :
                      (\E i \in 1..Len(task) : task[i].op \in {"delete", "simulate"})
                      => CopiesIn(task, tasks') <= CopiesIn(task, tasks)
       /\ status = "panicked"
             => /\ storage' = storage
                /\ injected' = injected
                /\ tasks' = tasks
                /\ clipboard' = clipboard
      ]_vars

\* the write of a paste flow failed: the entry is still in the database, the
\* clipboard is untouched, no key event was emitted, and the flow's SimulatePaste
\* is left undelivered
C25_Witness ==
    /\ status = "panicked"
    /\ last.message.type = "SetClipboardItem" /\ last.panic
    /\ storage = ItemsOf(2)
    /\ clipboard = ""
    /\ injected = <<>>
    /\ <<Done(SimulatePaste)>> \in BagToSet(tasks)

\* C26: a refused injection ends its invocation of the synthesizer and nothing
\* else: the application keeps running, its windows, shortcut, clipboard and
\* database are as before, nothing is emitted for the refused event, the other
\* invocations keep their steps, and a SimulatePaste that arrives later is
\* processed as usual
C26_InjectionFailureSwallowed ==
    /\ status = "running"
    /\ [][/\ \A task \in BagToSet(tasks) :
                task[1].op = "simulate" /\ tasks' = tasks (-) SetToBag({task})
                => /\ AppState' = AppState
                   /\ injected' = injected
                   /\ ~last'.panic
          /\ last'.message = SimulatePaste
                => /\ ~last'.panic
                   /\ last'.task = PasteSteps
                   /\ tasks' = tasks (+) SetToBag({PasteSteps})
         ]_vars

\* the first invocation was refused its V-down after Ctrl-down was emitted, and
\* the SimulatePaste processed after that has just started a whole new invocation
C26_Witness ==
    /\ last.message = SimulatePaste
    /\ inputs = 2
    /\ injected = <<FourEvents[1]>>
    /\ tasks = SetToBag({PasteSteps})

\* a message that ends the application is on its way
FatalPending ==
    \E task \in BagToSet(tasks) :
        \E i \in 1..Len(task) : task[i] \in {Done(Panic), Done(ExitApp), Exit}

\* C27: a storage call that fails ends the application: a failed connection is
\* answered by Panic, which requests the exit, and a list, add or delete call
\* that fails (it ran against a handle that is not connected) leaves the
\* application stopped or with a message that ends it on its way
C27_StorageFailureFatal ==
    [][/\ last'.message = Panic => last'.task = <<Done(ExitApp)>>
       /\ \A task \in BagToSet(tasks) :
             /\ task[1].op \in {"get_items", "add_item", "delete"}
             /\ task[1].db # "Connected"
             /\ CopiesIn(task, tasks') < CopiesIn(task, tasks)
             => status' # "running" \/ FatalPending'
      ]_vars

\* C28: when the registration of the input hook fails the process ends: the step
\* in which rdev::listen fails leaves the application stopped or with a message
\* that ends it on its way, and no message is processed as usual after it
C28_HookFailureFatal ==
    [][/\ \A task \in BagToSet(tasks) :
             task[1].op = "listen" /\ CopiesIn(task, tasks') < CopiesIn(task, tasks)
             => status' # "running" \/ FatalPending'
       /\ <<ListenHook>> \notin BagToSet(tasks) /\ ~FatalPending /\ last'.message # NoMessage
             => status' # "running"
      ]_vars

\* the slots of `ids` are in the window map after the step as they were before
SlotsKept(ids) == \A id \in ids : id \in DOMAIN windows' /\ windows'[id] = windows[id]

\* C29: a step that opens or closes a Settings window, and the processing of
\* OpenSettingsWindow, leave every History slot as it was; a step that opens or
\* closes a History window, and the processing of RequestOpenHistoryWindow,
\* RequestCloseHistoryWindow and of a close request or event for a History
\* window, leave every Settings slot as it was, its capture state included
C29_IndependentLifecycles ==
    [][/\ SettingsIds(windows') # SettingsIds(windows) => SlotsKept(HistoryIds(windows))
       /\ last'.message = OpenSettingsWindow => SlotsKept(HistoryIds(windows))
       /\ HistoryIds(windows') # HistoryIds(windows) => SlotsKept(SettingsIds(windows))
       /\ last'.message \in {RequestOpenHistoryWindow, RequestCloseHistoryWindow}
             => SlotsKept(SettingsIds(windows))
       /\ \A id \in HistoryIds(windows) :
             last'.message \in {RequestWindowClose(id), WindowClose(id)}
             => SlotsKept(SettingsIds(windows))
      ]_vars

\* a second History window was opened and loaded beside the Settings window,
\* the Settings window is Listening, and the first History window was just
\* closed: a History and a Settings window are live together
C29_Witness ==
    /\ last.message = WindowClose(1)
    /\ DOMAIN windows = {2, 3}
    /\ windows[2] = SettingsState(DefaultShortcut, Listening(DefaultShortcut))
    /\ IsHistory(windows, 3)
    /\ windows[3].state = "Loaded"

\* the task opened with window `id` still has to list the rows, over a
\* connected handle
ListPending(id) ==
    \E task \in BagToSet(tasks) : \E i \in 1..Len(task) : task[i] = GetItems(id, "Connected")

\* C30: under fair polling of tasks and delivery of messages, a History window
\* that is Loading and whose list call is pending on a connected handle is
\* eventually closed or Loaded with cursor 0 and the rows of the storage; and a
\* window leaves Loading only by HistoryWindowLoaded, to cursor 0 and the
\* message's rows
C30_LoadCompletes ==
    /\ \A id \in 1..MaxWindows :
          (IsHistory(windows, id) /\ windows[id] = Loading /\ ListPending(id))
             ~> (id \notin DOMAIN windows \/ windows[id] = Loaded(0, storage))
    /\ [][\A id \in HistoryIds(windows) :
            (/\ windows[id] = Loading
             /\ id \in DOMAIN windows'
             /\ windows'[id] # Loading)
            => /\ last'.message.type = "HistoryWindowLoaded"
               /\ last'.message.id = id
               /\ windows'[id] = Loaded(0, last'.message.items)]_vars

\* a window opened over a connected handle was just loaded with the two rows
\* of the storage, cursor 0
C30_Witness ==
    /\ last.message = HistoryWindowLoaded(1, storage)
    /\ 1 \in DOMAIN windows
    /\ windows[1] = Loaded(0, storage)
    /\ Len(storage) = 2
    /\ db = "Connected"

\* C31: the only History window that ever lived (id 1, no other id was handed
\* out) has started at most one paste flow: the clipboard was written at most
\* once, and a Paste of a window that already started a flow is not accepted
C31_OneFlowPerWindow ==
    /\ next_id = 2 => obs.clipboard_sets <= 1
    /\ [][\A id \in DOMAIN windows :
            last'.message = HistoryWindowEvent(id, Paste) /\ obs.paste_id = id
            => last'.task = NoTask]_vars

\* C32: the synthetic events are emitted one invocation after the other: the
\* emitted sequence is Ctrl-down, V-down, V-up, Ctrl-up repeated, so that no
\* event of another invocation lies between a Ctrl-down and its Ctrl-up
C32_NoInterleaving ==
    \A i \in 1..Len(injected) : injected[i] = FourEvents[((i - 1) % 4) + 1]

\* the synthetic presses of `key` not yet followed by a synthetic release
Down(key) ==
    Injected(KeyPress(Key(key)), Len(injected)) - Injected(KeyRelease(Key(key)), Len(injected))

\* C33: a synthetic Ctrl-down or V-down is eventually followed by its key-up,
\* whether or not a later injection of the sequence is refused
C33_KeyUpFollows ==
    /\ (Down("ControlLeft") > 0) ~> (Down("ControlLeft") = 0)
    /\ (Down("KeyV") > 0) ~> (Down("KeyV") = 0)

\* C34: with the hook observing the synthetic events, no GlobalEvent of a
\* synthetic Ctrl-down, V-down, V-up or Ctrl-up asks to open the History window
C34_PasteDoesNotToggle ==
    [][last'.message.type = "GlobalEvent" => ~Fired(last')]_vars

\* an UpdateToggleShortcut message is on its way to update
UpdatePending ==
    \E task \in BagToSet(tasks) : \E i \in 1..Len(task) :
        task[i].op = "done" /\ task[i].msg.type = "UpdateToggleShortcut"

\* C35: with no UpdateToggleShortcut pending, every Settings window that is
\* NotListening stores the active shortcut
C35_StoredShortcutIsActive ==
    ~UpdatePending
    => \A id \in SettingsIds(windows) :
          windows[id].shortcut_selection_state = NotListening
          => windows[id].toggle_shortcut = toggle_shortcut

\* every message, close, add and delete has run: what is left in flight are
\* synthesizer steps
Settled ==
    \A task \in BagToSet(tasks) : \A i \in 1..Len(task) : task[i].op \in {"sleep", "simulate"}

\* C36: when the application runs, nothing but synthesizer steps is in flight,
\* and every clipboard write of a paste was followed by a completed add of its
\* ClipboardEvent (the database began with rows 1 and 2), then no pasted entry
\* is in storage under its old identifier and the text of each is in storage
C36_PastedTextKept ==
    (Running /\ Settled /\ next_entry_id - 3 = obs.clipboard_sets)
    => \A item \in obs.pasted :
          /\ item.id \notin IdsOf(storage)
          /\ \E i \in 1..Len(storage) : storage[i].data = item.data

\* C37: every history load, add and delete in flight was started with the
\* connected handle
C37_NoCallOnDisconnected ==
    \A task \in BagToSet(tasks) : \A i \in 1..Len(task) :
        task[i].op \in {"get_items", "add_item", "delete"} => task[i].db = "Connected"

\* C38: two shortcuts captured on different physical key codes never have the
\* same key for global matching: the pending shortcut of a Listening Settings
\* window and the active shortcut, when captured on different keys, differ in
\* their rdev key
C38_KeyTranslationInjective ==
    \A id \in SettingsIds(windows) :
        LET selection == windows[id].shortcut_selection_state
        IN  /\ selection.tag = "Listening"
            /\ selection.shortcut.iced_physical_key # toggle_shortcut.iced_physical_key
            => selection.shortcut.rdev_key # toggle_shortcut.rdev_key

====
